---------------------------- MODULE Spec2Model ----------------------------
(***************************************************************************)
(* A model of tofufy's command line (src/src/tofufy/cli.py): the record    *)
(* key assigner (collect_zone_records), the marker-section file updaters   *)
(* (update_locals_file, update_single_zone_locals) and the orchestration   *)
(* of one run (main).                                                      *)
(*                                                                         *)
(* Python strings that the code inspects character by character (names,    *)
(* types, keys) are sequences of one-character strings.  File contents are *)
(* sequences of tokens: a marker, a newline, or a piece of text that holds *)
(* neither.  An absent dict key is an absent field of the record.          *)
(***************************************************************************)
EXTENDS Integers, Sequences, FiniteSets, TLC

VARIABLES
    \* --- collect_zone_records ---
    listing,          \* the zone's raw records, in the order the source lists them
    private_zone,     \* the zone's privacy flag
    skip_patterns,    \* the compiled exclude patterns
    include_patterns, \* the compiled include patterns
    odd_swaps,        \* the listing was reordered an odd number of times since the last call
    out,              \* <<>>, or <<the last call of collect_zone_records>>
    prev              \* <<>>, or <<the call before it>>

VARIABLES
    \* --- the locals file and its updaters ---
    file_exists,      \* locals_path.exists()
    file,             \* the tokens of the locals file
    original_file,    \* its tokens before the first call
    before,           \* its tokens before the last call
    last_call,        \* <<>>, or <<the last call: the function and its argument>>
    repeated,         \* the last call repeated the call before it
    calls,            \* the number of calls so far
    functions_called  \* the updaters called so far, by name

VARIABLES
    \* --- main ---
    zone_ids,         \* the zone ids of the configuration
    single_zone,      \* args.single_zone
    export_target,    \* args.export_target
    pc,               \* the place of the run in main
    rc,               \* the status main returned
    idx,              \* the place of the zone loop in zone_ids, from 1
    log,              \* the session, the provider calls and the file writes so far
    outcomes,         \* how each zone attempted so far ended
    aggregate_locals, aggregate_imports, aggregate_zone_imports,
    aggregate_zone_configs, zone_resource_import_id, successes,
    files,            \* the output files other than the locals file
    stderr,           \* what the run printed to the error stream
    statuses          \* what earlier runs that reached the end of main returned

VARIABLES
    \* --- one function called on its own ---
    fn_call           \* <<>>, or <<the last call: the function, its arguments, its result>>

recvars == <<listing, private_zone, skip_patterns, include_patterns, odd_swaps, out, prev>>
filehistory == <<original_file, before, last_call, repeated, calls, functions_called>>
filevars == <<file_exists, file, filehistory>>
runvars ==
    <<pc, rc, idx, log, outcomes, aggregate_locals, aggregate_imports,
      aggregate_zone_imports, aggregate_zone_configs, zone_resource_import_id,
      successes, files, stderr>>
mainvars == <<zone_ids, single_zone, export_target, runvars, statuses>>
fnvars == <<fn_call>>
vars == <<recvars, filevars, mainvars, fnvars>>

---------------------------------------------------------------------------
(* Characters and Python's str operations                                  *)

Digits == << "0", "1", "2", "3", "4", "5", "6", "7", "8", "9" >>
Uppers ==
    << "A", "B", "C", "D", "E", "F", "G", "H", "I", "J", "K", "L", "M",
       "N", "O", "P", "Q", "R", "S", "T", "U", "V", "W", "X", "Y", "Z" >>
Lowers ==
    << "a", "b", "c", "d", "e", "f", "g", "h", "i", "j", "k", "l", "m",
       "n", "o", "p", "q", "r", "s", "t", "u", "v", "w", "x", "y", "z" >>

\* The characters the model's strings use, in code point order.
Chars ==
    << " ", "\"", "%", "*", "-", "." >> \o Digits \o Uppers \o << "\\", "_" >> \o Lowers

IndexIn(seq, c) == CHOOSE i \in 1..Len(seq) : seq[i] = c
Range(seq) == { seq[i] : i \in 1..Len(seq) }

DigitSet == Range(Digits)
UpperSet == Range(Uppers)
LowerSet == Range(Lowers)
OrdOf == [c \in Range(Chars) |-> IndexIn(Chars, c)]
LowerOf == [c \in UpperSet |-> Lowers[IndexIn(Uppers, c)]]
UpperOf == [c \in LowerSet |-> Uppers[IndexIn(Lowers, c)]]

\* ord(c), as far as comparing two characters goes
Ord(c) == OrdOf[c]

IsDigit(c) == c \in DigitSet
IsUpper(c) == c \in UpperSet
IsLower(c) == c \in LowerSet
IsAlnum(c) == IsDigit(c) \/ IsUpper(c) \/ IsLower(c)

LowerChar(c) == IF IsUpper(c) THEN LowerOf[c] ELSE c
UpperChar(c) == IF IsLower(c) THEN UpperOf[c] ELSE c

\* str.lower(), str.upper()
Lower(s) == [i \in 1..Len(s) |-> LowerChar(s[i])]
Upper(s) == [i \in 1..Len(s) |-> UpperChar(s[i])]

\* Python's < on str: by code point, a proper prefix first.
RECURSIVE StrLess(_, _)
StrLess(a, b) ==
    IF b = <<>> THEN FALSE
    ELSE IF a = <<>> THEN TRUE
    ELSE IF a[1] # b[1] THEN Ord(a[1]) < Ord(b[1])
    ELSE StrLess(Tail(a), Tail(b))

\* str.startswith / str.endswith
StartsWith(s, p) == Len(p) <= Len(s) /\ SubSeq(s, 1, Len(p)) = p
EndsWith(s, p) == Len(p) <= Len(s) /\ SubSeq(s, Len(s) - Len(p) + 1, Len(s)) = p

\* str.rstrip(c) and str.strip(c) for a single character c
RECURSIVE RStripChar(_, _)
RStripChar(s, c) ==
    IF s # <<>> /\ s[Len(s)] = c THEN RStripChar(SubSeq(s, 1, Len(s) - 1), c) ELSE s

RECURSIVE LStripChar(_, _)
LStripChar(s, c) ==
    IF s # <<>> /\ s[1] = c THEN LStripChar(Tail(s), c) ELSE s

StripChar(s, c) == LStripChar(RStripChar(s, c), c)

\* str.replace(old, new), old not empty: leftmost matches, left to right
RECURSIVE Replace(_, _, _)
Replace(s, old, new) ==
    IF s = <<>> THEN <<>>
    ELSE IF StartsWith(s, old)
         THEN new \o Replace(SubSeq(s, Len(old) + 1, Len(s)), old, new)
         ELSE <<s[1]>> \o Replace(Tail(s), old, new)

\* re.sub(r"[^A-Za-z0-9]+", "_", s): each run of other characters becomes one "_"
RECURSIVE CollapseNonAlnum(_)
CollapseNonAlnum(s) ==
    IF s = <<>> THEN <<>>
    ELSE IF IsAlnum(s[1]) THEN <<s[1]>> \o CollapseNonAlnum(Tail(s))
    ELSE IF Len(s) >= 2 /\ ~IsAlnum(s[2]) THEN CollapseNonAlnum(Tail(s))
    ELSE <<"_">> \o CollapseNonAlnum(Tail(s))

\* str(n) for n >= 0
RECURSIVE Decimal(_)
Decimal(n) ==
    IF n < 10 THEN <<Digits[n + 1]>> ELSE Decimal(n \div 10) \o <<Digits[(n % 10) + 1]>>

\* f"{n:02d}"
Pad02(n) == IF n < 10 THEN <<"0">> \o Decimal(n) ELSE Decimal(n)

\* "sep".join(parts)
RECURSIVE Join(_, _)
Join(sep, parts) ==
    IF parts = <<>> THEN <<>>
    ELSE IF Len(parts) = 1 THEN parts[1]
    ELSE parts[1] \o sep \o Join(sep, Tail(parts))

\* sub in s
RECURSIVE Contains(_, _)
Contains(s, sub) ==
    \/ StartsWith(s, sub)
    \/ (s # <<>> /\ Contains(Tail(s), sub))

\* pattern.search(s) for a pattern compiled with re.IGNORECASE from an
\* expression without metacharacters: the literal occurs in s, case ignored.
Search(pattern, s) == Contains(Lower(s), Lower(pattern))

\* {}, and key in dict
EmptyDict == [k \in {} |-> k]
Has(d, k) == k \in DOMAIN d

ESCAPED_STAR == <<"\\", "0", "5", "2">>
STAR == <<"s", "t", "a", "r">>
ROOT == <<"r", "o", "o", "t">>

---------------------------------------------------------------------------
(* Name utilities and the record normalizer                                *)

SKIP_RECORD_TYPES == { <<"N", "S">>, <<"S", "O", "A">> }
SKIPPABLE_IMPORT_TYPES == { <<"A">>, <<"C", "N", "A", "M", "E">> }

compute_relative_name(record_name, zone_name) ==
    LET name == RStripChar(record_name, ".")
        zone == RStripChar(zone_name, ".")
    IN  IF name = <<>> \/ name = zone THEN <<>>
        ELSE IF zone # <<>> /\ EndsWith(name, <<".">> \o zone)
             THEN SubSeq(name, 1, Len(name) - (Len(zone) + 1))
             ELSE name

\* value or "root"
OrRoot(value) == IF value = <<>> THEN ROOT ELSE value

sanitize_subdomain(value) ==
    IF value = <<>> THEN ROOT
    ELSE OrRoot(StripChar(
             CollapseNonAlnum(
                 Lower(Replace(Replace(value, <<"*">>, STAR), ESCAPED_STAR, STAR))),
             "_"))

\* The tuple build_record_key returns, from its two intermediate values.
RecordKeyTuple(record_type, relative_name, subdomain) ==
    << Lower(record_type) \o <<"_">> \o subdomain, relative_name, subdomain >>

RecordKeyOf(record_type, relative_name) ==
    RecordKeyTuple(record_type, relative_name, sanitize_subdomain(relative_name))

\* <<key_base, relative_name, subdomain>>
build_record_key(record_name, zone_name, record_type) ==
    RecordKeyOf(record_type, compute_relative_name(record_name, zone_name))

\* "_" before a result that is empty or starts with a digit
PrefixIdentifier(sanitized) ==
    IF sanitized = <<>> \/ IsDigit(sanitized[1]) THEN <<"_">> \o sanitized ELSE sanitized

sanitize_identifier(value) ==
    PrefixIdentifier([i \in 1..Len(value) |->
                         IF IsAlnum(value[i]) \/ value[i] = "_" THEN value[i] ELSE "_"])

\* None, where the code stores it as a value; no string of characters equals it.
None == << "None" >>

\* dict.get(key), and dict.get(key) or ""
Get(d, k) == IF Has(d, k) THEN d[k] ELSE None
GetOrEmpty(d, k) == IF Has(d, k) /\ d[k] # None THEN d[k] ELSE <<>>

\* d[k] = v
Put(d, k, v) == [x \in DOMAIN d \cup {k} |-> IF x = k THEN v ELSE d[x]]

\* bool(v) of a string or None
Truthy(v) == v # None /\ v # <<>>

\* PERCENT_ESCAPE_PATTERN.sub("%%", value): every "%" not followed by "%" doubles
RECURSIVE escape_percent_signs(_)
escape_percent_signs(value) ==
    IF value = <<>> THEN <<>>
    ELSE IF value[1] = "%" /\ ~(Len(value) >= 2 /\ value[2] = "%")
         THEN <<"%", "%">> \o escape_percent_signs(Tail(value))
         ELSE <<value[1]>> \o escape_percent_signs(Tail(value))

\* The raw keys normalize_record copies when present, with to_snake_case of each.
OPTIONAL_KEYS ==
    << "TTL", "SetIdentifier", "HealthCheckId", "Failover",
       "TrafficPolicyInstanceId", "MultiValueAnswer", "Region", "Weight" >>

to_snake_case(key_name) ==
    CASE key_name = "TTL" -> "ttl"
      [] key_name = "SetIdentifier" -> "set_identifier"
      [] key_name = "HealthCheckId" -> "health_check_id"
      [] key_name = "Failover" -> "failover"
      [] key_name = "TrafficPolicyInstanceId" -> "traffic_policy_instance_id"
      [] key_name = "MultiValueAnswer" -> "multi_value_answer"
      [] key_name = "Region" -> "region"
      [] key_name = "Weight" -> "weight"

TXT_TYPES == { <<"T", "X", "T">>, <<"S", "P", "F">> }
QUOTE == << "\"" >>

\* One entry of ResourceRecords, as normalize_record stores it.
NormalizeResourceValue(record_type, value) ==
    escape_percent_signs(
        IF record_type \in TXT_TYPES /\ StartsWith(value, QUOTE) /\ EndsWith(value, QUOTE)
        THEN Replace(SubSeq(value, 2, Len(value) - 1), <<"\\", "\"">>, QUOTE)
        ELSE value)

RECURSIVE CopyOptionalKeys(_, _, _)
CopyOptionalKeys(record, normalized, i) ==
    IF i > Len(OPTIONAL_KEYS) THEN normalized
    ELSE CopyOptionalKeys(
             record,
             IF Has(record, OPTIONAL_KEYS[i])
             THEN Put(normalized, to_snake_case(OPTIONAL_KEYS[i]), record[OPTIONAL_KEYS[i]])
             ELSE normalized,
             i + 1)

\* normalize_record, step by step: the first five fields, ...
BaseFields(key, full_name, record_type) ==
    [key_base |-> key[1], relative_name |-> key[2], subdomain |-> key[3],
     full_name |-> full_name, type |-> record_type]

\* ... "records" when ResourceRecords is not empty, ...
WithRecords(normalized, record) ==
    IF Has(record, "ResourceRecords") /\ record.ResourceRecords # <<>>
    THEN Put(normalized, "records",
             [i \in 1..Len(record.ResourceRecords) |->
                 NormalizeResourceValue(normalized.type,
                     GetOrEmpty(record.ResourceRecords[i], "Value"))])
    ELSE normalized

AliasMap(alias_target) ==
    [x \in {"name", "zone_id"}
          \cup (IF Has(alias_target, "EvaluateTargetHealth")
                THEN {"evaluate_target_health"} ELSE {}) |->
        CASE x = "name" ->
                 Replace(RStripChar(GetOrEmpty(alias_target, "DNSName"), "."),
                         ESCAPED_STAR, <<"*">>)
          [] x = "zone_id" -> Get(alias_target, "HostedZoneId")
          [] x = "evaluate_target_health" -> alias_target.EvaluateTargetHealth]

\* ... "alias" when AliasTarget is not empty, ...
WithAlias(normalized, record) ==
    IF Has(record, "AliasTarget") /\ DOMAIN record.AliasTarget # {}
    THEN Put(normalized, "alias", AliasMap(record.AliasTarget))
    ELSE normalized

\* ... "geo_location" when GeoLocation is not empty, ...
WithGeoLocation(normalized, record) ==
    IF Has(record, "GeoLocation") /\ DOMAIN record.GeoLocation # {}
    THEN Put(normalized, "geo_location",
             [continent_code |-> Get(record.GeoLocation, "ContinentCode"),
              country_code |-> Get(record.GeoLocation, "CountryCode"),
              subdivision_code |-> Get(record.GeoLocation, "SubdivisionCode")])
    ELSE normalized

\* full_name or zone_name
NameForId(full_name, zone_name) == IF full_name # <<>> THEN full_name ELSE zone_name

\* The join with the set identifier as a fourth part of every id, empty when the
\* record has none.
WithImportId_FourParts(normalized, record, zone_name, zone_id) ==
    Put(normalized, "import_id",
        Join(<<"_">>,
             << zone_id, NameForId(normalized.full_name, zone_name), normalized.type,
                GetOrEmpty(record, "SetIdentifier") >>))

\* ... and "import_id".
WithImportId(normalized, record, zone_name, zone_id) ==
    Put(normalized, "import_id",
        Join(<<"_">>,
             << zone_id, NameForId(normalized.full_name, zone_name), normalized.type >>
             \o (IF Has(record, "SetIdentifier") /\ record.SetIdentifier # <<>>
                 THEN << record.SetIdentifier >> ELSE <<>>)))

NormalizeNamed(record, zone_name, zone_id, record_type, full_name) ==
    << WithImportId(
           CopyOptionalKeys(
               record,
               WithGeoLocation(
                   WithAlias(
                       WithRecords(
                           BaseFields(build_record_key(full_name, zone_name, record_type),
                                      full_name, record_type),
                           record),
                       record),
                   record),
               1),
           record, zone_name, zone_id) >>

NormalizeTyped(record, zone_name, zone_id, record_type) ==
    IF record_type \in SKIP_RECORD_TYPES THEN <<>>
    ELSE NormalizeNamed(record, zone_name, zone_id, record_type,
             Replace(RStripChar(GetOrEmpty(record, "Name"), "."), ESCAPED_STAR, <<"*">>))

\* The normalizer with the type compared as the listing spells it.
normalize_record_CaseSensitive(record, zone_name, zone_id) ==
    NormalizeTyped(record, zone_name, zone_id, GetOrEmpty(record, "Type"))

\* <<>> when the record is skipped, else <<the normalized record>>
normalize_record(record, zone_name, zone_id) ==
    NormalizeTyped(record, zone_name, zone_id, Upper(GetOrEmpty(record, "Type")))

\* One optional attribute: <<>> or <<  <<name, value>>  >>
Attr(present, name, value) == IF present THEN << <<name, value>> >> ELSE <<>>

AliasAttributes(alias) ==
    Attr(Truthy(Get(alias, "name")), "name", Get(alias, "name"))
    \o Attr(Truthy(Get(alias, "zone_id")), "zone_id", Get(alias, "zone_id"))
    \o Attr(Has(alias, "evaluate_target_health"), "evaluate_target_health",
            Get(alias, "evaluate_target_health"))

\* The three keys written whenever the location is there.
GeoAttributes_EveryKey(geo_location) ==
    Attr(Has(geo_location, "continent_code"), "continent",
         Get(geo_location, "continent_code"))
    \o Attr(Has(geo_location, "country_code"), "country",
            Get(geo_location, "country_code"))
    \o Attr(Has(geo_location, "subdivision_code"), "subdivision",
            Get(geo_location, "subdivision_code"))

GeoAttributes(geo_location) ==
    Attr(Truthy(Get(geo_location, "continent_code")), "continent",
         Get(geo_location, "continent_code"))
    \o Attr(Truthy(Get(geo_location, "country_code")), "country",
            Get(geo_location, "country_code"))
    \o Attr(Truthy(Get(geo_location, "subdivision_code")), "subdivision",
            Get(geo_location, "subdivision_code"))

\* geolocation_routing_policy, left out when it would be empty
GeoPolicy(geo_attributes) ==
    Attr(geo_attributes # <<>>, "geolocation_routing_policy", geo_attributes)

\* dict.get(key) or {}
GetOrEmptyDict(d, k) == IF Has(d, k) THEN d[k] ELSE EmptyDict

\* The OrderedDict of attributes, as the sequence of its <<name, value>> items.
build_record_attributes(record) ==
    << <<"full_name", record.full_name>>, <<"type", record.type>> >>
    \o Attr(Has(record, "ttl"), "ttl", Get(record, "ttl"))
    \o Attr(Has(record, "records") /\ Get(record, "records") # <<>>,
            "records", Get(record, "records"))
    \o Attr(Has(record, "alias") /\ DOMAIN Get(record, "alias") # {},
            "alias", AliasAttributes(Get(record, "alias")))
    \o Attr(Has(record, "set_identifier"), "set_identifier", Get(record, "set_identifier"))
    \o Attr(Has(record, "health_check_id"), "health_check_id", Get(record, "health_check_id"))
    \o Attr(Has(record, "failover"), "failover", Get(record, "failover"))
    \o Attr(Has(record, "traffic_policy_instance_id"), "traffic_policy_instance_id",
            Get(record, "traffic_policy_instance_id"))
    \o Attr(Has(record, "multi_value_answer"), "multivalue_answer",
            Get(record, "multi_value_answer"))
    \o Attr(Has(record, "region") /\ Get(record, "region") # <<>>,
            "latency_routing_policy", << <<"region", Get(record, "region")>> >>)
    \o Attr(Has(record, "weight"), "weighted_routing_policy",
            << <<"weight", Get(record, "weight")>> >>)
    \o GeoPolicy(GeoAttributes(GetOrEmptyDict(record, "geo_location")))

---------------------------------------------------------------------------
(* The key assigner: collect_zone_records                                  *)

\* The filters with the exclude patterns applied to records of every type.
KeepRecord_AnyType(normalized, skips, includes) ==
    /\ ~(skips # <<>> /\ \E i \in 1..Len(skips) : Search(skips[i], normalized.full_name))
    /\ \/ includes = <<>>
       \/ \E i \in 1..Len(includes) : Search(includes[i], normalized.full_name)

\* The hostname filters: TRUE when the normalized record is kept.
KeepRecord(normalized, skips, includes) ==
    LET hostname == normalized.full_name
        skipped ==
            /\ skips # <<>>
            /\ normalized.type \in SKIPPABLE_IMPORT_TYPES
            /\ \E i \in 1..Len(skips) : Search(skips[i], hostname)
        included ==
            \/ includes = <<>>
            \/ \E i \in 1..Len(includes) : Search(includes[i], hostname)
    IN  ~skipped /\ included

\* The list `records`: the normalized records that pass the filters, in listing order.
\* One pass of the listing loop: <<>> when the item is skipped or filtered out.
KeptOne(normalized, skips, includes) ==
    IF normalized = <<>> THEN <<>>
    ELSE IF KeepRecord(normalized[1], skips, includes) THEN normalized
    ELSE <<>>

RECURSIVE KeptRecords(_, _, _, _, _)
KeptRecords(raw, zone_name, zone_id, skips, includes) ==
    IF raw = <<>> THEN <<>>
    ELSE KeptOne(normalize_record(raw[1], zone_name, zone_id), skips, includes)
         \o KeptRecords(Tail(raw), zone_name, zone_id, skips, includes)

\* A sort key that leaves the set identifier out.
SortKey_NoSetIdentifier(item) == << item.key_base, <<>>, item.full_name >>

\* The sort key of the assignment loop, and Python's < on such tuples.
SortKey(item) == << item.key_base, GetOrEmpty(item, "set_identifier"), item.full_name >>

KeyLess(a, b) ==
    \/ StrLess(a[1], b[1])
    \/ a[1] = b[1] /\ StrLess(a[2], b[2])
    \/ a[1] = b[1] /\ a[2] = b[2] /\ StrLess(a[3], b[3])

\* sorted(records, key=...): stable, so records of equal key keep their order.
RECURSIVE InsertSorted(_, _)
InsertSorted(sorted, item) ==
    IF sorted = <<>> THEN << item >>
    ELSE IF KeyLess(SortKey(item), SortKey(sorted[1])) THEN << item >> \o sorted
    ELSE << sorted[1] >> \o InsertSorted(Tail(sorted), item)

\* The records left in the order of the listing.
Sorted_ListingOrder(records) == records

RECURSIVE Sorted(_)
Sorted(records) ==
    IF records = <<>> THEN <<>>
    ELSE InsertSorted(Sorted(SubSeq(records, 1, Len(records) - 1)), records[Len(records)])

\* The key suffix of the n-th record of a key base.
KeySuffix(n) == IF n = 1 THEN <<>> ELSE <<"_">> \o Pad02(n)

\* An OrderedDict as the sequence of its <<key, value>> items: d[k] = v keeps the
\* place of a key the dict already holds.
OrderedPut(items, k, v) ==
    IF \E i \in 1..Len(items) : items[i][1] = k
    THEN [i \in 1..Len(items) |-> IF items[i][1] = k THEN << k, v >> ELSE items[i]]
    ELSE Append(items, << k, v >>)

\* counts.get(base, 0)
CountOf(counts, base) == IF Has(counts, base) THEN counts[base] ELSE 0

\* The assignment loop over the sorted records; acc holds counts, record_blocks,
\* import_entries and, in `keyed`, the records processed so far with their "key".
\* One pass of the loop, the record's count known.
AssignOne(record, count, record_key, zone_key, acc) ==
    [counts |-> Put(acc.counts, record.key_base, count),
     record_blocks |->
         OrderedPut(acc.record_blocks, record_key,
                    build_record_attributes(Put(record, "key", record_key))),
     import_entries |->
         Append(acc.import_entries, << zone_key, record_key, record.import_id >>),
     keyed |-> Append(acc.keyed, Put(record, "key", record_key))]

AssignCounted(record, count, zone_key, acc) ==
    AssignOne(record, count, record.key_base \o KeySuffix(count), zone_key, acc)

RECURSIVE AssignKeys(_, _, _)
AssignKeys(sorted, zone_key, acc) ==
    IF sorted = <<>> THEN acc
    ELSE AssignKeys(Tail(sorted), zone_key,
             AssignCounted(sorted[1], CountOf(acc.counts, sorted[1].key_base) + 1,
                           zone_key, acc))

PRIVATE_KEY_SUFFIX == << "_", "p", "r", "i", "v", "a", "t", "e" >>
PRIVATE_FILE_SUFFIX == << "-", "p", "r", "i", "v", "a", "t", "e" >>
ZONE_RECORDS_PREFIX ==
    << "z", "o", "n", "e", "_", "r", "e", "c", "o", "r", "d", "s", "_" >>

ZoneKey(zone_name, private) ==
    IF private THEN zone_name \o PRIVATE_KEY_SUFFIX ELSE zone_name

FilenameDomain(zone_name, private) ==
    Replace(zone_name, <<".">>, <<"-">>) \o (IF private THEN PRIVATE_FILE_SUFFIX ELSE <<>>)

CollectResult(zone_key, zone_name, private, loop) ==
    [zone_key |-> zone_key,
     local_var |-> sanitize_identifier(ZONE_RECORDS_PREFIX \o zone_key),
     filename_domain |-> FilenameDomain(zone_name, private),
     record_blocks |-> loop.record_blocks,
     import_entries |-> loop.import_entries,
     keyed |-> loop.keyed]

CollectKeyed(records, zone_key, zone_name, private) ==
    CollectResult(zone_key, zone_name, private,
        AssignKeys(Sorted(records), zone_key,
            [counts |-> EmptyDict, record_blocks |-> <<>>,
             import_entries |-> <<>>, keyed |-> <<>>]))

\* What collect_zone_records returns (zone_key, local_var, filename_domain,
\* record_blocks, import_entries), with the records as the loop keyed them.
collect_zone_records(raw, zone_id, zone_name, private, skips, includes) ==
    CollectKeyed(KeptRecords(raw, zone_name, zone_id, skips, includes),
                 ZoneKey(zone_name, private), zone_name, private)

---------------------------------------------------------------------------
(* The file updaters: update_locals_file and update_single_zone_locals     *)
(*                                                                         *)
(* A file is a sequence of tokens: a marker, a newline, or a piece of text *)
(* that holds no marker and neither starts nor ends with white space.      *)

BEGIN_MARKER == "# BEGIN GENERATED ROUTE53 RECORDS"
END_MARKER == "# END GENERATED ROUTE53 RECORDS"
SINGLE_ZONE_BEGIN_MARKER == "# BEGIN GENERATED PRIMARY ZONE"
SINGLE_ZONE_END_MARKER == "# END GENERATED PRIMARY ZONE"
NL == "\n"

\* The place of the first end marker after the begin marker at tokens[1], or 0.
FirstEnd(tokens, end_marker) ==
    IF \E j \in 2..Len(tokens) : tokens[j] = end_marker
    THEN CHOOSE j \in 2..Len(tokens) :
             /\ tokens[j] = end_marker
             /\ \A k \in 2..(j - 1) : tokens[k] # end_marker
    ELSE 0

\* The place of the last token of the match that ends with the marker at j: the
\* pattern's "\n?" takes one newline after the end marker.
MatchEnd(tokens, j) ==
    IF j < Len(tokens) /\ tokens[j + 1] = NL THEN j + 1 ELSE j

\* re.sub(pattern, "", text) for the pattern begin.*?end\n? with re.DOTALL: every
\* match goes, a match running from a begin marker to the first end marker after it.
RECURSIVE RemoveSpans(_, _, _)
RemoveSpans(tokens, begin_marker, end_marker) ==
    IF tokens = <<>> THEN <<>>
    ELSE IF tokens[1] = begin_marker /\ FirstEnd(tokens, end_marker) # 0
         THEN RemoveSpans(
                  SubSeq(tokens, MatchEnd(tokens, FirstEnd(tokens, end_marker)) + 1,
                         Len(tokens)),
                  begin_marker, end_marker)
         ELSE << tokens[1] >> \o RemoveSpans(Tail(tokens), begin_marker, end_marker)

\* str.rstrip(): trailing white space goes
RECURSIVE RStrip(_)
RStrip(tokens) ==
    IF tokens # <<>> /\ tokens[Len(tokens)] = NL
    THEN RStrip(SubSeq(tokens, 1, Len(tokens) - 1))
    ELSE tokens

\* "\n".join(lines), a trailing "" of lines being the final newline
RECURSIVE JoinLines(_)
JoinLines(lines) ==
    IF lines = <<>> THEN <<>>
    ELSE IF Len(lines) = 1 THEN (IF lines[1] = "" THEN <<>> ELSE << lines[1] >>)
    ELSE (IF lines[1] = "" THEN <<>> ELSE << lines[1] >>) \o << NL >> \o JoinLines(Tail(lines))

\* json.dumps of a string that needs no escape
JsonDumps(text) == "\"" \o text \o "\""

\* cleaned + "\n\n" + generated, or generated alone
NewContent(cleaned, generated) ==
    IF cleaned # <<>> THEN cleaned \o << NL, NL >> \o generated ELSE generated

\* The block of update_locals_file, line by line.
LocalsBlockLines(local_vars) ==
    << BEGIN_MARKER >>
    \o (IF local_vars # <<>>
        THEN << "locals {", "  zone_records = merge(", "    {}," >>
             \o [i \in 1..Len(local_vars) |->
                    "    local." \o local_vars[i]
                    \o (IF i - 1 < Len(local_vars) - 1 THEN "," ELSE "")]
             \o << "  )", "}" >>
        ELSE << "locals {", "  zone_records = {}", "}" >>)
    \o << END_MARKER, "" >>

\* The block appended to the file as it is, no span removed.
update_locals_file_KeepsSpans(original, local_vars) ==
    NewContent(RStrip(original), JoinLines(LocalsBlockLines(local_vars)))

\* The file's tokens after update_locals_file(local_vars, locals_path).
update_locals_file(original, local_vars) ==
    NewContent(RStrip(RemoveSpans(original, BEGIN_MARKER, END_MARKER)),
               JoinLines(LocalsBlockLines(local_vars)))

\* The block of update_single_zone_locals, line by line.
ZoneBlockLines(zone_name) ==
    << SINGLE_ZONE_BEGIN_MARKER,
       "locals {",
       "  zone = {",
       "    name    = " \o JsonDumps(zone_name),
       "    comment = " \o JsonDumps("Primary " \o zone_name \o " zone"),
       "    tags    = {}",
       "  }",
       "}",
       SINGLE_ZONE_END_MARKER,
       "" >>

\* The file's tokens after update_single_zone_locals(zone_name, locals_path).
update_single_zone_locals(original, zone_name) ==
    NewContent(RStrip(RemoveSpans(original, SINGLE_ZONE_BEGIN_MARKER,
                                  SINGLE_ZONE_END_MARKER)),
               JoinLines(ZoneBlockLines(zone_name)))

\* locals_path.read_text() if locals_path.exists() else ""
ReadOriginal == IF file_exists THEN file ELSE <<>>

---------------------------------------------------------------------------
(* Specification SpecRecords: one zone, listed in any order, collected     *)
(* again and again                                                         *)

MaxRecords == 3

ZONE_NAME == << "e", "x", ".", "i", "o" >>
ZONE_ID == << "Z", "1" >>
NAME_APEX == << "e", "x", ".", "i", "o", "." >>
NAME_FOO == << "f", "o", "o", ".", "e", "x", ".", "i", "o", "." >>
NAME_FOO_02 == << "f", "o", "o", "-", "0", "2", ".", "e", "x", ".", "i", "o", "." >>

\* The raw records a listing draws from: three weighted A records at one name, an
\* A record and an MX record at a name that ends in -02, the apex NS record, and a
\* second A record with the name, type and set identifier of the first.
RawPool ==
    { [Name |-> NAME_FOO, Type |-> <<"A">>, SetIdentifier |-> <<"a">>, TTL |-> 300],
      [Name |-> NAME_FOO, Type |-> <<"A">>, SetIdentifier |-> <<"b">>, TTL |-> 300],
      [Name |-> NAME_FOO, Type |-> <<"A">>, SetIdentifier |-> <<"c">>, TTL |-> 300],
      [Name |-> NAME_FOO_02, Type |-> <<"A">>, TTL |-> 300],
      [Name |-> NAME_FOO_02, Type |-> <<"M", "X">>, TTL |-> 300],
      [Name |-> NAME_APEX, Type |-> <<"N", "S">>, TTL |-> 300],
      [Name |-> NAME_FOO, Type |-> <<"A">>, SetIdentifier |-> <<"a">>, TTL |-> 60] }

\* Lists of compiled patterns: none, and a list whose first pattern matches no
\* name and whose second matches the names that hold "02", in either case.
PatternLists ==
    { <<>>,
      << <<"Z", "z">>, <<"0", "2">> >> }

IsInjective(seq) == \A i, j \in 1..Len(seq) : seq[i] = seq[j] => i = j

Listings ==
    { seq \in UNION { [1..n -> RawPool] : n \in 0..MaxRecords } : IsInjective(seq) }

\* No function is called on its own.
FunctionsIdle == fn_call = <<>>

\* The locals file is not in play.
FilesIdle ==
    /\ file_exists = FALSE
    /\ file = <<>>
    /\ original_file = <<>>
    /\ before = <<>>
    /\ last_call = <<>>
    /\ repeated = FALSE
    /\ calls = 0
    /\ functions_called = {}

\* No run of main is in play.
MainIdle ==
    /\ zone_ids = <<>>
    /\ single_zone = FALSE
    /\ export_target = "both"
    /\ pc = "idle"
    /\ rc = 0
    /\ idx = 0
    /\ log = <<>>
    /\ outcomes = <<>>
    /\ aggregate_locals = <<>>
    /\ aggregate_imports = <<>>
    /\ aggregate_zone_imports = <<>>
    /\ aggregate_zone_configs = EmptyDict
    /\ zone_resource_import_id = None
    /\ successes = 0
    /\ files = EmptyDict
    /\ stderr = <<>>
    /\ statuses = {}

RecInit ==
    /\ FilesIdle
    /\ MainIdle
    /\ FunctionsIdle
    /\ listing \in Listings
    /\ private_zone \in BOOLEAN
    /\ skip_patterns \in PatternLists
    /\ include_patterns \in PatternLists
    /\ odd_swaps = FALSE
    /\ out = <<>>
    /\ prev = <<>>

\* The record source lists two neighbouring records the other way round.
Relist ==
    \E i \in 1..(Len(listing) - 1) :
        /\ listing' = [listing EXCEPT ![i] = listing[i + 1], ![i + 1] = listing[i]]
        /\ odd_swaps' = ~odd_swaps
        /\ UNCHANGED <<private_zone, skip_patterns, include_patterns, out, prev>>
        /\ UNCHANGED <<filevars, mainvars, fnvars>>

\* The tuple a call returned.
Returned(result) ==
    << result.zone_key, result.local_var, result.filename_domain,
       result.record_blocks, result.import_entries >>

\* One call of collect_zone_records on the current listing.
Collect ==
    /\ out' = << [result |-> collect_zone_records(listing, ZONE_ID, ZONE_NAME,
                                 private_zone, skip_patterns, include_patterns),
                  reordered |-> odd_swaps] >>
    /\ prev' = IF out = <<>> THEN <<>> ELSE << Returned(out[1].result) >>
    /\ odd_swaps' = FALSE
    /\ UNCHANGED <<listing, private_zone, skip_patterns, include_patterns>>
    /\ UNCHANGED <<filevars, mainvars, fnvars>>

RecNext == Relist \/ Collect

SpecRecords == RecInit /\ [][RecNext]_vars


---------------------------------------------------------------------------
(* Properties of collect_zone_records, checked under SpecRecords           *)

\* The last call, and the records it keyed, in the order it keyed them.
Collected == out # <<>>
LastResult == out[1].result
Keyed == out[1].result.keyed

\* The canonical order of the specification, stated on its own:
\* (keyBase, setIdentifier-or-empty, fullName), ascending.
CanonicalKey(record) ==
    << record.key_base,
       IF "set_identifier" \in DOMAIN record THEN record.set_identifier ELSE <<>>,
       record.full_name >>

CanonicalBefore(a, b) ==
    \/ StrLess(a[1], b[1])
    \/ a[1] = b[1] /\ StrLess(a[2], b[2])
    \/ a[1] = b[1] /\ a[2] = b[2] /\ StrLess(a[3], b[3])

\* "_" and n as two digits, for n below 100
TwoDigitSuffix(n) == << "_", Digits[(n \div 10) + 1], Digits[(n % 10) + 1] >>

\* How many of the first i keyed records share the key base of the i-th.
RankInGroup(keyed, i) ==
    Cardinality({ j \in 1..i : keyed[j].key_base = keyed[i].key_base })

KEY_A_FOO == << "a", "_", "f", "o", "o" >>
KEY_A_FOO_02 == << "a", "_", "f", "o", "o", "_", "0", "2" >>
KEY_A_FOO_03 == << "a", "_", "f", "o", "o", "_", "0", "3" >>

\* C1: the record keys of one call are pairwise distinct: the returned record map
\* has as many entries as there are records that survived filtering.
C1_KeysPairwiseDistinct ==
    Collected =>
        /\ \A i, j \in 1..Len(Keyed) : Keyed[i].key = Keyed[j].key => i = j
        /\ Len(LastResult.record_blocks) = Len(Keyed)

\* C2: records are keyed in ascending (keyBase, setIdentifier-or-empty, fullName)
\* order; the first of a key base gets the bare key base, the n-th gets the key
\* base, "_" and n as two digits; three A records at foo with set identifiers
\* a, b, c get a_foo, a_foo_02, a_foo_03 in that order.
C2_KeysFollowCanonicalOrder ==
    Collected =>
        /\ \A i, j \in 1..Len(Keyed) :
               i < j => ~CanonicalBefore(CanonicalKey(Keyed[j]), CanonicalKey(Keyed[i]))
        /\ \A i \in 1..Len(Keyed) :
               Keyed[i].key =
                   IF RankInGroup(Keyed, i) = 1 THEN Keyed[i].key_base
                   ELSE Keyed[i].key_base \o TwoDigitSuffix(RankInGroup(Keyed, i))
        /\ ( /\ Len(Keyed) = 3
             /\ \A i \in 1..3 : Keyed[i].key_base = KEY_A_FOO
             /\ Keyed[1].set_identifier = <<"a">>
             /\ Keyed[2].set_identifier = <<"b">>
             /\ Keyed[3].set_identifier = <<"c">> )
           => /\ Keyed[1].key = KEY_A_FOO
              /\ Keyed[2].key = KEY_A_FOO_02
              /\ Keyed[3].key = KEY_A_FOO_03

\* C2's case: the source listed the three A records c, b, a and the call keyed
\* them a, b, c.
C2_Witness ==
    /\ Collected
    /\ Len(listing) = 3
    /\ \A i \in 1..3 : "SetIdentifier" \in DOMAIN listing[i]
    /\ << listing[1].SetIdentifier, listing[2].SetIdentifier, listing[3].SetIdentifier >>
           = << <<"c">>, <<"b">>, <<"a">> >>
    /\ ~out[1].reordered
    /\ Len(Keyed) = 3
    /\ << Keyed[1].key, Keyed[2].key, Keyed[3].key >>
           = << KEY_A_FOO, KEY_A_FOO_02, KEY_A_FOO_03 >>

\* Two calls were made, on two listings of the same records with the same filters.
CollectedTwice == prev # <<>> /\ out # <<>>

\* No two of the keyed records agree on (keyBase, setIdentifier-or-empty, fullName).
DistinctCanonicalKeys ==
    \A i, j \in 1..Len(Keyed) : CanonicalKey(Keyed[i]) = CanonicalKey(Keyed[j]) => i = j

WithoutKey(record) == [k \in DOMAIN record \ {"key"} |-> record[k]]
IsKeyed(normalized) == \E i \in 1..Len(Keyed) : WithoutKey(Keyed[i]) = normalized

MatchesAny(patterns, hostname) ==
    \E i \in 1..Len(patterns) : Search(patterns[i], hostname)

\* The rule for one record: normalized is <<>> or <<the normalized record>>.
FilterRuleFor(record_type, normalized) ==
    normalized # <<>> =>
        /\ IsKeyed(normalized[1])
           <=> /\ ~( /\ record_type \in SKIPPABLE_IMPORT_TYPES
                     /\ MatchesAny(skip_patterns, normalized[1].full_name) )
               /\ \/ include_patterns = <<>>
                  \/ MatchesAny(include_patterns, normalized[1].full_name)
        /\ (record_type \notin SKIPPABLE_IMPORT_TYPES /\ include_patterns = <<>>)
           => IsKeyed(normalized[1])

\* C10: a normalized record is kept if and only if it is not (of a skippable type
\* and matched by an exclude pattern) and (there is no include pattern or one
\* matches it); a record of another type is never dropped by an exclude pattern.
C10_FilterRule ==
    Collected =>
        \A i \in 1..Len(listing) :
            FilterRuleFor(Upper(listing[i].Type),
                          normalize_record(listing[i], ZONE_NAME, ZONE_ID))

\* C10's case: an exclude pattern matches foo-02; the A record of that name is
\* dropped, the MX record of that name and the A record of another name are kept.
C10_Witness ==
    /\ Collected
    /\ skip_patterns # <<>>
    /\ include_patterns = <<>>
    /\ \E i, j, k \in 1..Len(listing) :
           /\ listing[i].Name = NAME_FOO_02 /\ listing[i].Type = <<"A">>
           /\ listing[j].Name = NAME_FOO_02 /\ listing[j].Type = <<"M", "X">>
           /\ listing[k].Name = NAME_FOO /\ listing[k].Type = <<"A">>
           /\ ~IsKeyed(normalize_record(listing[i], ZONE_NAME, ZONE_ID)[1])
           /\ IsKeyed(normalize_record(listing[j], ZONE_NAME, ZONE_ID)[1])
           /\ IsKeyed(normalize_record(listing[k], ZONE_NAME, ZONE_ID)[1])


---------------------------------------------------------------------------
(* Specification SpecFiles: a locals file, hand-written or not, updated    *)
(* again and again                                                         *)

MaxFileLen == 3
MaxCalls == 2

\* What a file holds before the first call: text, newlines and markers.
FileTokens ==
    { "x", "y", NL, BEGIN_MARKER, END_MARKER,
      SINGLE_ZONE_BEGIN_MARKER, SINGLE_ZONE_END_MARKER }

\* The arguments of the calls.
LocalVarLists ==
    { <<>>, << "zone_records_ex_io" >>, << "zone_records_ex_io", "zone_records_ex_org" >> }
ZoneNames == { "ex.io" }

\* The records are not in play.
RecordsIdle ==
    /\ listing = <<>>
    /\ private_zone = FALSE
    /\ skip_patterns = <<>>
    /\ include_patterns = <<>>
    /\ odd_swaps = FALSE
    /\ out = <<>>
    /\ prev = <<>>

FileInit ==
    /\ RecordsIdle
    /\ MainIdle
    /\ FunctionsIdle
    /\ file_exists \in BOOLEAN
    /\ file \in UNION { [1..n -> FileTokens] : n \in 0..MaxFileLen }
    /\ ~file_exists => file = <<>>
    /\ original_file = file
    /\ before = file
    /\ last_call = <<>>
    /\ repeated = FALSE
    /\ calls = 0
    /\ functions_called = {}

\* What every call does to the history.
Called(call) ==
    /\ calls < MaxCalls
    /\ calls' = calls + 1
    /\ before' = ReadOriginal
    /\ last_call' = << call >>
    /\ repeated' = (last_call = << call >>)
    /\ functions_called' = functions_called \cup { call[1] }
    /\ file_exists' = TRUE
    /\ UNCHANGED original_file
    /\ UNCHANGED <<recvars, mainvars, fnvars>>

UpdateLocalsFile ==
    \E local_vars \in LocalVarLists :
        /\ Called(<< "update_locals_file", local_vars >>)
        /\ file' = update_locals_file(ReadOriginal, local_vars)

UpdateSingleZoneLocals ==
    \E zone_name \in ZoneNames :
        /\ Called(<< "update_single_zone_locals", zone_name >>)
        /\ file' = update_single_zone_locals(ReadOriginal, zone_name)

FileNext == UpdateLocalsFile \/ UpdateSingleZoneLocals

SpecFiles == FileInit /\ [][FileNext]_vars

---------------------------------------------------------------------------
(* Properties of the file updaters, checked under SpecFiles                *)

\* C4: a call that repeats the call before it, same function and same argument,
\* leaves the file as that call left it.
C4_SecondCallChangesNothing ==
    repeated => file = before

MARKERS ==
    { BEGIN_MARKER, END_MARKER, SINGLE_ZONE_BEGIN_MARKER, SINGLE_ZONE_END_MARKER }

\* The places of tokens, from place i on, that lie in a span from a begin marker to
\* the first end marker after it, both markers included.
RECURSIVE SpanPlaces(_, _, _, _)
SpanPlaces(tokens, i, begin_marker, end_marker) ==
    IF i > Len(tokens) THEN {}
    ELSE IF tokens[i] = begin_marker /\ \E j \in (i + 1)..Len(tokens) : tokens[j] = end_marker
         THEN LET j == CHOOSE j \in (i + 1)..Len(tokens) :
                           /\ tokens[j] = end_marker
                           /\ \A k \in (i + 1)..(j - 1) : tokens[k] # end_marker
              IN  (i..j) \cup SpanPlaces(tokens, j + 1, begin_marker, end_marker)
         ELSE SpanPlaces(tokens, i + 1, begin_marker, end_marker)

\* The pieces of text of a file that lie outside every marker-delimited span.
RECURSIVE Pick(_, _, _)
Pick(tokens, i, places) ==
    IF i > Len(tokens) THEN <<>>
    ELSE (IF i \in places THEN << tokens[i] >> ELSE <<>>) \o Pick(tokens, i + 1, places)

HandWritten(tokens) ==
    Pick(tokens, 1,
         { i \in 1..Len(tokens) : tokens[i] \notin MARKERS \cup {NL} }
         \ ( SpanPlaces(tokens, 1, BEGIN_MARKER, END_MARKER)
             \cup SpanPlaces(tokens, 1, SINGLE_ZONE_BEGIN_MARKER, SINGLE_ZONE_END_MARKER) ))

\* a is b with some tokens left out
RECURSIVE IsSubsequence(_, _)
IsSubsequence(a, b) ==
    IF a = <<>> THEN TRUE
    ELSE IF b = <<>> THEN FALSE
    ELSE IF a[1] = b[1] THEN IsSubsequence(Tail(a), Tail(b))
    ELSE IsSubsequence(a, Tail(b))

\* C5: after any sequence of calls, every piece of text of the original file that
\* lay outside a marker-delimited span is still in the file, in its original order.
C5_HandWrittenTextKept ==
    IsSubsequence(HandWritten(original_file), file)


----------------------------------------------------------------------------
(* main: the provider account, the zone details and the zone configuration *)

MaxZones == 2

\* A string of characters as one piece of text.
RECURSIVE Text(_)
Text(chars) == IF chars = <<>> THEN "" ELSE chars[1] \o Text(Tail(chars))

\* DEFAULT_ARGUMENTS
OUTPUT_DIR == "."
LOCALS_FILE == "locals.tf"
IMPORTS_FILE == "imports.tf"
ZONES_FILE == "config-zones.tf"
SINGLE_ZONE_RECORDS_FILE == "config-records.tf"
skip_zone_tags == FALSE

ZONE_ID_2 == << "Z", "2" >>
ZoneIdPool == { ZONE_ID, ZONE_ID_2 }

\* What the provider holds: a public zone and a private zone of the same name,
\* the private one with two networks and a tag.
HostedZones ==
    [z \in ZoneIdPool |->
        IF z = ZONE_ID
        THEN [HostedZone |-> [Name |-> NAME_APEX,
                              Config |-> [PrivateZone |-> FALSE, Comment |-> <<"m">>]],
              VPCs |-> <<>>,
              Tags |-> <<>>,
              RecordSets |-> << [Name |-> NAME_FOO, Type |-> <<"A">>, TTL |-> 300],
                                [Name |-> NAME_APEX, Type |-> <<"N", "S">>, TTL |-> 300] >>]
        ELSE [HostedZone |-> [Name |-> NAME_APEX,
                              Config |-> [PrivateZone |-> TRUE]],
              VPCs |-> << [VPCId |-> <<"v", "2">>, VPCRegion |-> <<"e", "u">>],
                          [VPCRegion |-> <<"e", "u">>],
                          [VPCId |-> <<"v", "1">>, VPCRegion |-> <<"e", "u">>] >>,
              Tags |-> << [Key |-> <<"k">>, Value |-> <<"v">>] >>,
              RecordSets |-> << [Name |-> NAME_FOO_02, Type |-> <<"M", "X">>, TTL |-> 300] >>]]

\* a < b for tuples of strings, as Python compares tuples
RECURSIVE TupleLess(_, _)
TupleLess(a, b) ==
    IF b = <<>> THEN FALSE
    ELSE IF a = <<>> THEN TRUE
    ELSE IF a[1] # b[1] THEN StrLess(a[1], b[1])
    ELSE TupleLess(Tail(a), Tail(b))

\* sorted(set(items)) for tuples of strings
RECURSIVE SortedSet(_)
SortedSet(S) ==
    IF S = {} THEN <<>>
    ELSE LET least == CHOOSE x \in S : \A y \in S \ {x} : TupleLess(x, y)
         IN  << least >> \o SortedSet(S \ {least})

\* sorted(items, key=lambda item: item[:n]): stable
RECURSIVE InsertByPrefix(_, _, _)
InsertByPrefix(sorted, item, n) ==
    IF sorted = <<>> THEN << item >>
    ELSE IF TupleLess(SubSeq(item, 1, n), SubSeq(sorted[1], 1, n))
         THEN << item >> \o sorted
         ELSE << sorted[1] >> \o InsertByPrefix(Tail(sorted), item, n)

RECURSIVE SortedByPrefix(_, _)
SortedByPrefix(items, n) ==
    IF items = <<>> THEN <<>>
    ELSE InsertByPrefix(SortedByPrefix(SubSeq(items, 1, Len(items) - 1), n),
                        items[Len(items)], n)

\* The vpcs loop of get_zone_details: the networks that carry an id.
RECURSIVE ZoneVpcs(_)
ZoneVpcs(vpcs) ==
    IF vpcs = <<>> THEN <<>>
    ELSE (IF Truthy(Get(vpcs[1], "VPCId"))
          THEN << [vpc_id |-> vpcs[1].VPCId, vpc_region |-> Get(vpcs[1], "VPCRegion")] >>
          ELSE <<>>)
         \o ZoneVpcs(Tail(vpcs))

\* The tags loop of get_zone_details: the entries that carry a key.
RECURSIVE ZoneTags(_)
ZoneTags(entries) ==
    IF entries = <<>> THEN EmptyDict
    ELSE IF Truthy(Get(entries[Len(entries)], "Key"))
         THEN Put(ZoneTags(SubSeq(entries, 1, Len(entries) - 1)),
                  entries[Len(entries)].Key, GetOrEmpty(entries[Len(entries)], "Value"))
         ELSE ZoneTags(SubSeq(entries, 1, Len(entries) - 1))

ZoneNameOf(hosted_zone, zone_id) ==
    RStripChar(IF Truthy(Get(hosted_zone, "Name")) THEN hosted_zone.Name ELSE zone_id, ".")

\* get_zone_details, of a response; tags_listed says the tags call did not raise.
get_zone_details(response, zone_id, include_tags, tags_listed) ==
    [id |-> zone_id,
     name |-> ZoneNameOf(response.HostedZone, zone_id),
     private_zone |-> Has(response.HostedZone.Config, "PrivateZone")
                      /\ response.HostedZone.Config.PrivateZone,
     comment |-> GetOrEmpty(response.HostedZone.Config, "Comment"),
     tags |-> IF include_tags /\ tags_listed THEN ZoneTags(response.Tags) ELSE EmptyDict,
     vpcs |-> ZoneVpcs(response.VPCs)]

VpcSortKey(vpc) ==
    << IF Truthy(vpc.vpc_region) THEN vpc.vpc_region ELSE <<>>,
       IF Truthy(vpc.vpc_id) THEN vpc.vpc_id ELSE <<>> >>

\* sorted(vpcs, key=...): stable
RECURSIVE InsertVpc(_, _)
InsertVpc(sorted, vpc) ==
    IF sorted = <<>> THEN << vpc >>
    ELSE IF TupleLess(VpcSortKey(vpc), VpcSortKey(sorted[1]))
         THEN << vpc >> \o sorted
         ELSE << sorted[1] >> \o InsertVpc(Tail(sorted), vpc)

RECURSIVE SortedVpcs(_)
SortedVpcs(vpcs) ==
    IF vpcs = <<>> THEN <<>>
    ELSE InsertVpc(SortedVpcs(SubSeq(vpcs, 1, Len(vpcs) - 1)), vpcs[Len(vpcs)])

VPC_PREFIX == << "v", "p", "c", "_" >>

\* if not identifier: identifier = f"vpc_{index:02d}"
OrVpcNN(identifier, index) ==
    IF identifier = <<>> THEN VPC_PREFIX \o Pad02(index) ELSE identifier

VpcIdentifier(vpc, index) ==
    OrVpcNN(
        sanitize_identifier(
            (IF Truthy(vpc.vpc_region) THEN vpc.vpc_region
             ELSE <<"u", "n", "k", "n", "o", "w", "n">>)
            \o <<"_">>
            \o (IF Truthy(vpc.vpc_id) THEN vpc.vpc_id ELSE Decimal(index))),
        index)

VpcBlock(vpc) ==
    (IF Truthy(vpc.vpc_id) THEN << << "vpc_id", vpc.vpc_id >> >> ELSE <<>>)
    \o (IF Truthy(vpc.vpc_region) THEN << << "vpc_region", vpc.vpc_region >> >> ELSE <<>>)

RECURSIVE VpcMapOf(_, _)
VpcMapOf(sorted_vpcs, n) ==
    IF n = 0 THEN <<>>
    ELSE OrderedPut(VpcMapOf(sorted_vpcs, n - 1),
                    VpcIdentifier(sorted_vpcs[n], n), VpcBlock(sorted_vpcs[n]))

build_vpc_map(vpcs) == VpcMapOf(SortedVpcs(vpcs), Len(vpcs))

\* OrderedDict(sorted(tags.items()))
SortedItems(tags) == SortedSet({ << k, tags[k] >> : k \in DOMAIN tags })

build_zone_configuration(zone_details, include_tags) ==
    << << "name", zone_details.name >>,
       << "comment", zone_details.comment >>,
       << "private_zone", zone_details.private_zone >> >>
    \o (IF zone_details.private_zone /\ zone_details.vpcs # <<>>
        THEN << << "vpcs", build_vpc_map(zone_details.vpcs) >> >>
        ELSE <<>>)
    \o << << "tags", SortedItems(IF include_tags THEN zone_details.tags ELSE EmptyDict) >> >>



\* The number of places of a file that hold the token.
CountIn(tokens, token) == Cardinality({ i \in 1..Len(tokens) : tokens[i] = token })

\* The file ends with the tokens.
EndsWithTokens(tokens, suffix) ==
    /\ Len(suffix) <= Len(tokens)
    /\ SubSeq(tokens, Len(tokens) - Len(suffix) + 1, Len(tokens)) = suffix

\* The file holds one generated section, the block of the call, at its end.
OneSectionAtEnd(tokens, local_vars) ==
    /\ CountIn(tokens, BEGIN_MARKER) = 1
    /\ CountIn(tokens, END_MARKER) = 1
    /\ EndsWithTokens(tokens, JoinLines(LocalsBlockLines(local_vars)))

\* Calls were made, of update_locals_file only.
OnlyLocalsCalls == calls > 0 /\ functions_called = { "update_locals_file" }

\* Every begin and end marker of the file lies in a span that runs from a begin
\* marker to the first end marker after it.
MarkersPaired(tokens) ==
    \A i \in 1..Len(tokens) :
        tokens[i] \in { BEGIN_MARKER, END_MARKER }
            => i \in SpanPlaces(tokens, 1, BEGIN_MARKER, END_MARKER)

\* C20, as claimed: after any sequence of update_locals_file calls on any initial
\* content the file holds exactly one begin marker and one end marker, the begin
\* before the end, with the block of the last call between them, and the section
\* is the last thing in the file.
C20_OneSectionForAnyContent ==
    OnlyLocalsCalls => OneSectionAtEnd(file, last_call[1][2])

\* C20, amended: the same, for an initial content in which every begin and end
\* marker lies in a complete begin..end span.
C20_OneSectionForPairedMarkers ==
    OnlyLocalsCalls /\ MarkersPaired(original_file)
        => OneSectionAtEnd(file, last_call[1][2])

\* update_locals_file was called twice on a file that held hand-written text and
\* a generated section, the second time with other names than the first.
C20_Witness ==
    /\ OnlyLocalsCalls
    /\ calls = 2
    /\ ~repeated
    /\ MarkersPaired(original_file)
    /\ original_file # <<>>
    /\ original_file[1] = "x"
    /\ CountIn(original_file, BEGIN_MARKER) = 1

----------------------------------------------------------------------------
(* Specification SpecMain: main, run and run again                         *)
(*                                                                         *)
(* A step that can raise is a choice between its going through and its     *)
(* raising an error of a class main catches at that place.  The mkdir     *)
(* before the zone loop, whose error main does not catch, goes through.    *)
(* Each run starts on a directory that holds at most a locals file.        *)

ExportRecordsEnabled(target) == target \in {"records", "both"}
ExportZonesEnabled(target) == target \in {"zones", "both"}
ZoneExportEnabled(target, single) == ExportZonesEnabled(target) /\ ~single
IncludeZoneTags(target, single) == ZoneExportEnabled(target, single) /\ ~skip_zone_tags

\* get_zone_ids raises, or one of the two checks of the mode returns 1
ZoneIdsMissing(ids) == ids = <<>>
ModeRejected_AnyCount(ids, single, target) ==
    single /\ ExportZonesEnabled(target) /\ ~ExportRecordsEnabled(target)
ModeRejected(ids, single, target) ==
    \/ single /\ Len(ids) # 1
    \/ single /\ ExportZonesEnabled(target) /\ ~ExportRecordsEnabled(target)

ModeMessage(ids) ==
    IF Len(ids) # 1
    THEN "--single-zone requires exactly one hosted zone ID"
    ELSE "Zones-only export is not supported with --single-zone"

\* One entry of the log: a session, a provider call or a file write, and whether
\* it went through.
Event(op, arg, ok) == [op |-> op, arg |-> arg, ok |-> ok]

RecordsPath(filename_domain) == "route53-records-" \o Text(filename_domain) \o ".tf"

\* del files[path]
Unlink(fs, path) == [x \in DOMAIN fs \ {path} |-> fs[x]]

\* The zone id lists of a configuration.
ZoneIdLists == UNION { [1..n -> ZoneIdPool] : n \in 0..MaxZones }

\* The locals file a run finds: none, or a hand-written line.
LocalsFiles == { <<>>, << "x", NL >> }

\* The start of a run: nothing is parsed yet, and the directory holds one of
\* the locals files.
RunStart ==
    /\ zone_ids = <<>>
    /\ single_zone = FALSE
    /\ export_target = "both"
    /\ file \in LocalsFiles
    /\ file_exists = (file # <<>>)
    /\ pc = "parse_args"
    /\ rc = 0
    /\ idx = 0
    /\ log = <<>>
    /\ outcomes = <<>>
    /\ aggregate_locals = <<>>
    /\ aggregate_imports = <<>>
    /\ aggregate_zone_imports = <<>>
    /\ aggregate_zone_configs = EmptyDict
    /\ zone_resource_import_id = None
    /\ successes = 0
    /\ files = EmptyDict
    /\ stderr = <<>>

MainInit ==
    /\ RecordsIdle
    /\ FunctionsIdle
    /\ original_file = <<>>
    /\ before = <<>>
    /\ last_call = <<>>
    /\ repeated = FALSE
    /\ calls = 0
    /\ functions_called = {}
    /\ RunStart
    /\ statuses = {}

\* What no step of main after parse_args touches.
MainFrame ==
    UNCHANGED <<recvars, filehistory, zone_ids, single_zone, export_target, fnvars>>

\* The args parse_args returns: the zone ids, the mode and the export target of
\* the configuration.
Parsed ==
    /\ zone_ids' \in ZoneIdLists
    /\ single_zone' \in BOOLEAN
    /\ export_target' \in {"records", "zones", "both"}

\* print(message, file=sys.stderr); return 1
Fail(message) ==
    /\ stderr' = Append(stderr, message)
    /\ pc' = "done"
    /\ rc' = 1

\* The run goes on to the next place of main.
Goto(place) ==
    /\ pc' = place
    /\ UNCHANGED <<rc, stderr>>

\* args = parse_args(argv)
ParseArgs ==
    /\ pc = "parse_args"
    /\ \E parsed \in BOOLEAN :
          IF parsed
          THEN Parsed /\ Goto("get_zone_ids")
          ELSE /\ UNCHANGED <<zone_ids, single_zone, export_target>>
               /\ Fail("Failed to parse arguments")
    /\ UNCHANGED <<idx, log, outcomes, aggregate_locals, aggregate_imports,
                   aggregate_zone_imports, aggregate_zone_configs,
                   zone_resource_import_id, successes, files, file, file_exists, statuses>>
    /\ UNCHANGED <<recvars, filehistory, fnvars>>

\* zone_ids = get_zone_ids(args)
GetZoneIds ==
    /\ pc = "get_zone_ids"
    /\ IF ZoneIdsMissing(zone_ids)
       THEN Fail("Failed to load zone IDs")
       ELSE Goto("check_mode")
    /\ UNCHANGED <<idx, log, outcomes, aggregate_locals, aggregate_imports,
                   aggregate_zone_imports, aggregate_zone_configs,
                   zone_resource_import_id, successes, files, file, file_exists, statuses>>
    /\ MainFrame

\* the two checks of single_zone_mode
CheckMode ==
    /\ pc = "check_mode"
    /\ IF ModeRejected(zone_ids, single_zone, export_target)
       THEN Fail(ModeMessage(zone_ids))
       ELSE Goto("build_session")
    /\ UNCHANGED <<idx, log, outcomes, aggregate_locals, aggregate_imports,
                   aggregate_zone_imports, aggregate_zone_configs,
                   zone_resource_import_id, successes, files, file, file_exists, statuses>>
    /\ MainFrame

\* session = build_session(args.profile); client = session.client("route53")
BuildSession ==
    /\ pc = "build_session"
    /\ \E created \in BOOLEAN :
          /\ log' = Append(log, Event("Session", <<>>, created))
          /\ IF created
             THEN Goto(IF single_zone THEN "single_zone" ELSE "zone_loop")
             ELSE Fail("Failed to create Route53 client")
    /\ idx' = 1
    /\ UNCHANGED <<outcomes, aggregate_locals, aggregate_imports,
                   aggregate_zone_imports, aggregate_zone_configs,
                   zone_resource_import_id, successes, files, file, file_exists, statuses>>
    /\ MainFrame


\* How one zone of the loop can end: the zone call raises, the tags call raises
\* (and is swallowed), the directory cannot be made, the listing raises, the
\* record file cannot be written, or nothing raises.
ZoneOutcomes(target, single) ==
    {"ok", "get_hosted_zone"}
    \cup (IF IncludeZoneTags(target, single) THEN {"list_tags_for_resource"} ELSE {})
    \cup (IF ExportRecordsEnabled(target)
          THEN {"mkdir", "list_resource_record_sets", "write_text"} ELSE {})

\* The outcomes in which the zone counts as exported.
Exported(outcome) == outcome \in {"ok", "list_tags_for_resource"}

\* The provider calls and the file writes of one zone, in the order of the code.
ZoneEvents(zone_id, outcome, path, target, single) ==
    << Event("get_hosted_zone", zone_id, outcome # "get_hosted_zone") >>
    \o (IF outcome # "get_hosted_zone" /\ IncludeZoneTags(target, single)
        THEN << Event("list_tags_for_resource", zone_id, outcome # "list_tags_for_resource") >>
        ELSE <<>>)
    \o (IF outcome = "mkdir" THEN << Event("mkdir", OUTPUT_DIR, FALSE) >> ELSE <<>>)
    \o (IF outcome \notin {"get_hosted_zone", "mkdir"} /\ ExportRecordsEnabled(target)
        THEN << Event("list_resource_record_sets", zone_id,
                      outcome # "list_resource_record_sets") >>
        ELSE <<>>)
    \o (IF outcome \notin {"get_hosted_zone", "mkdir", "list_resource_record_sets"}
           /\ ExportRecordsEnabled(target)
        THEN << Event("write_text", path, outcome # "write_text") >>
        ELSE <<>>)

\* The pass of the loop after a zone that raised: continue
AfterFailure_Break(i, n) == n + 1
AfterFailure(i, n) == i + 1

\* The record file of export_records: unlinked if there, then written.
RecordsWritten(fs, outcome, result) ==
    IF outcome = "write_text"
    THEN Unlink(fs, RecordsPath(result.filename_domain))
    ELSE Put(fs, RecordsPath(result.filename_domain),
             << result.local_var, result.zone_key, result.record_blocks >>)

\* One pass of the loop that raised nothing.
ZoneExported(zone_id, zone_details, result) ==
    /\ aggregate_locals' =
          IF ExportRecordsEnabled(export_target)
          THEN Append(aggregate_locals, result.local_var) ELSE aggregate_locals
    /\ aggregate_imports' =
          IF ExportRecordsEnabled(export_target)
          THEN aggregate_imports \o result.import_entries ELSE aggregate_imports
    /\ aggregate_zone_imports' =
          IF ZoneExportEnabled(export_target, single_zone)
          THEN Append(aggregate_zone_imports, << result.zone_key, zone_id >>)
          ELSE aggregate_zone_imports
    /\ aggregate_zone_configs' =
          IF ZoneExportEnabled(export_target, single_zone)
          THEN Put(aggregate_zone_configs, result.zone_key,
                   build_zone_configuration(zone_details, ~skip_zone_tags))
          ELSE aggregate_zone_configs
    /\ successes' = successes + 1
    /\ idx' = idx + 1
    /\ UNCHANGED stderr

\* One pass of the loop that raised, had the zone's import entry been appended
\* before the step that raised.
ZoneFailed_KeepsZoneImport(zone_id, outcome) ==
    /\ stderr' = Append(stderr, << "Failed to export data for", zone_id >>)
    /\ aggregate_zone_imports' =
          Append(aggregate_zone_imports,
                 << ZoneNameOf(HostedZones[zone_id].HostedZone, zone_id), zone_id >>)
    /\ UNCHANGED <<aggregate_locals, aggregate_imports, aggregate_zone_configs, successes>>
    /\ idx' = AfterFailure(idx, Len(zone_ids))

\* One pass of the loop that raised.
ZoneFailed(zone_id, outcome) ==
    /\ stderr' = Append(stderr, << IF outcome \in {"mkdir", "write_text"}
                                    THEN "Failed to write data for"
                                    ELSE "Failed to export data for", zone_id >>)
    /\ UNCHANGED <<aggregate_locals, aggregate_imports, aggregate_zone_imports,
                   aggregate_zone_configs, successes>>
    /\ idx' = AfterFailure(idx, Len(zone_ids))

ZonePass(zone_id, outcome, zone_details, result) ==
    /\ log' = log \o ZoneEvents(zone_id, outcome, RecordsPath(result.filename_domain),
                                export_target, single_zone)
    /\ outcomes' = Append(outcomes, << zone_id, outcome >>)
    /\ files' = IF outcome \in {"ok", "list_tags_for_resource", "write_text"}
                   /\ ExportRecordsEnabled(export_target)
                THEN RecordsWritten(files, outcome, result)
                ELSE files
    /\ IF Exported(outcome)
       THEN ZoneExported(zone_id, zone_details, result)
       ELSE ZoneFailed(zone_id, outcome)

ZoneCollected(zone_id, outcome, zone_details) ==
    ZonePass(zone_id, outcome, zone_details,
             collect_zone_records(HostedZones[zone_id].RecordSets, zone_id,
                                  zone_details.name, zone_details.private_zone,
                                  <<>>, <<>>))

\* for zone_id in zone_ids: one pass
ExportZone ==
    /\ pc = "zone_loop"
    /\ idx <= Len(zone_ids)
    /\ \E outcome \in ZoneOutcomes(export_target, single_zone) :
          ZoneCollected(zone_ids[idx], outcome,
                        get_zone_details(HostedZones[zone_ids[idx]], zone_ids[idx],
                                         IncludeZoneTags(export_target, single_zone),
                                         outcome # "list_tags_for_resource"))
    /\ UNCHANGED <<pc, rc, zone_resource_import_id, file, file_exists, statuses>>
    /\ MainFrame

\* sorted(set(aggregate_locals))
Firsts(tuples) == [i \in 1..Len(tuples) |-> tuples[i][1]]
SortedNames(names) == Firsts(SortedSet({ << name >> : name \in Range(names) }))

\* The names as the lines of the locals file hold them.
LocalsOf(names) == [i \in 1..Len(names) |-> Text(names[i])]

\* The step after the loop, with the names sorted.
LocalsUpdated(names) ==
    /\ aggregate_locals' = names
    /\ \E written \in BOOLEAN :
          /\ log' = Append(log, Event("update_locals_file", LOCALS_FILE, written))
          /\ IF written
             THEN /\ file' = update_locals_file(ReadOriginal, LocalsOf(names))
                  /\ file_exists' = TRUE
                  /\ Goto("write_zones")
             ELSE /\ UNCHANGED <<file, file_exists>>
                  /\ Fail("Failed to update locals file")

\* if export_records_enabled: update_locals_file(sorted(set(aggregate_locals)), ...)
UpdateLocals ==
    /\ pc = "zone_loop"
    /\ idx > Len(zone_ids)
    /\ IF ExportRecordsEnabled(export_target)
       THEN LocalsUpdated(SortedNames(aggregate_locals))
       ELSE /\ UNCHANGED <<log, file, file_exists, aggregate_locals>>
            /\ Goto("write_zones")
    /\ UNCHANGED <<idx, outcomes, aggregate_imports,
                   aggregate_zone_imports, aggregate_zone_configs,
                   zone_resource_import_id, successes, files, statuses>>
    /\ MainFrame

\* OrderedDict((key, aggregate_zone_configs[key]) for key in sorted(aggregate_zone_configs))
OrderedZones(configs, keys) == [i \in 1..Len(keys) |-> << keys[i], configs[keys[i]] >>]

\* write_zones_file(ordered_zones, ...): the file is kept as the zones handed over.
ZonesWritten(zones) ==
    \E written \in BOOLEAN :
       /\ log' = Append(log, Event("write_zones_file", ZONES_FILE, written))
       /\ IF written
          THEN /\ files' = Put(files, ZONES_FILE, zones)
               /\ Goto("write_imports")
          ELSE /\ UNCHANGED files
               /\ Fail("Failed to write zones file")

\* if zone_export_enabled: the zones file
WriteZones ==
    /\ pc = "write_zones"
    /\ IF ZoneExportEnabled(export_target, single_zone)
       THEN /\ aggregate_zone_imports' = SortedSet(Range(aggregate_zone_imports))
            /\ IF DOMAIN aggregate_zone_configs # {}
               THEN ZonesWritten(
                        OrderedZones(aggregate_zone_configs,
                                     Firsts(SortedSet({ << k >> :
                                                        k \in DOMAIN aggregate_zone_configs }))))
               ELSE /\ UNCHANGED <<log, files, rc>>
                    /\ stderr' = Append(stderr, "No zone configurations were generated")
                    /\ pc' = "write_imports"
       ELSE /\ UNCHANGED <<log, files, aggregate_zone_imports>>
            /\ Goto("write_imports")
    /\ UNCHANGED <<idx, outcomes, aggregate_locals, aggregate_imports,
                   aggregate_zone_configs, zone_resource_import_id, successes,
                   file, file_exists, statuses>>
    /\ MainFrame

\* How the single zone can end: as a zone of the loop, or with the locals file
\* not updated.
SingleZoneOutcomes ==
    {"ok", "get_hosted_zone", "list_resource_record_sets", "write_text",
     "update_single_zone_locals"}

SingleZoneEvents(zone_id, outcome) ==
    << Event("get_hosted_zone", zone_id, outcome # "get_hosted_zone") >>
    \o (IF outcome # "get_hosted_zone"
        THEN << Event("list_resource_record_sets", zone_id,
                      outcome # "list_resource_record_sets") >>
        ELSE <<>>)
    \o (IF outcome \notin {"get_hosted_zone", "list_resource_record_sets"}
        THEN << Event("write_text", SINGLE_ZONE_RECORDS_FILE, outcome # "write_text") >>
        ELSE <<>>)
    \o (IF outcome \in {"ok", "update_single_zone_locals"}
        THEN << Event("update_single_zone_locals", LOCALS_FILE, outcome = "ok") >>
        ELSE <<>>)

\* What the single-zone branch prints to the error stream.
SingleZoneMessages(zone_id, outcome, target) ==
    (IF outcome = "ok" THEN <<>>
     ELSE << << IF outcome \in {"write_text", "update_single_zone_locals"}
                THEN "Failed to write records for"
                ELSE "Failed to export records for", zone_id >> >>)
    \o (IF ExportZonesEnabled(target)
        THEN << "Zone export is not supported in --single-zone mode" >>
        ELSE <<>>)

SingleZonePass(zone_id, outcome, zone_details, result) ==
    /\ log' = log \o SingleZoneEvents(zone_id, outcome)
    /\ outcomes' = Append(outcomes, << zone_id, outcome >>)
    /\ files' = IF outcome \in {"ok", "update_single_zone_locals"}
                THEN Put(files, SINGLE_ZONE_RECORDS_FILE,
                         << "zone_records", result.record_blocks >>)
                ELSE files
    /\ file' = IF outcome = "ok"
               THEN update_single_zone_locals(ReadOriginal, Text(zone_details.name))
               ELSE file
    /\ file_exists' = (file_exists \/ outcome = "ok")
    /\ aggregate_imports' =
          IF outcome = "ok" THEN aggregate_imports \o result.import_entries
          ELSE aggregate_imports
    /\ successes' = IF outcome = "ok" THEN 1 ELSE successes
    /\ zone_resource_import_id' = IF outcome = "ok" THEN zone_id ELSE zone_resource_import_id
    /\ stderr' = stderr \o SingleZoneMessages(zone_id, outcome, export_target)

SingleZoneCollected(zone_id, outcome, zone_details) ==
    SingleZonePass(zone_id, outcome, zone_details,
                   collect_zone_records(HostedZones[zone_id].RecordSets, zone_id,
                                        zone_details.name, zone_details.private_zone,
                                        <<>>, <<>>))

\* if single_zone_mode: the one zone; export_records_enabled holds here, the
\* checks of the mode returned otherwise
ExportSingleZone ==
    /\ pc = "single_zone"
    /\ \E outcome \in SingleZoneOutcomes :
          SingleZoneCollected(zone_ids[1], outcome,
                              get_zone_details(HostedZones[zone_ids[1]], zone_ids[1],
                                               IncludeZoneTags(export_target, single_zone),
                                               TRUE))
    /\ pc' = "write_imports"
    /\ UNCHANGED <<rc, idx, aggregate_locals, aggregate_zone_imports,
                   aggregate_zone_configs, statuses>>
    /\ MainFrame


\* The import blocks of write_imports_file, in the order of the file: the block
\* of the single zone, the blocks of the zones, the blocks of the records.
ZoneResourceBlock(zone_resource_id) ==
    IF Truthy(zone_resource_id)
    THEN << [to |-> << "module.zone.aws_route53_zone.this", "0" >>, id |-> zone_resource_id] >>
    ELSE <<>>

ZoneBlocks(entries) ==
    [i \in 1..Len(entries) |->
        [to |-> << "module.zones", entries[i][1], "aws_route53_zone.this", "0" >>,
         id |-> entries[i][2]]]

RecordBlocks(entries, single) ==
    [i \in 1..Len(entries) |->
        [to |-> IF single
                THEN << "module.zone.aws_route53_record.this", entries[i][2] >>
                ELSE << "module.zones", entries[i][1], "aws_route53_record.this",
                        entries[i][2] >>,
         id |-> entries[i][3]]]

\* The blocks in the order of the lists passed in.
write_imports_file_Unsorted(import_entries, single, zone_resource_id, zone_import_entries) ==
    ZoneResourceBlock(zone_resource_id)
    \o ZoneBlocks(zone_import_entries)
    \o RecordBlocks(import_entries, single)

\* The content written, as the sequence of its import blocks: no block, an empty
\* file.
write_imports_file(import_entries, single, zone_resource_id, zone_import_entries) ==
    ZoneResourceBlock(zone_resource_id)
    \o ZoneBlocks(SortedByPrefix(zone_import_entries, 1))
    \o RecordBlocks(SortedByPrefix(import_entries, 2), single)

ImportsWritten(entries) ==
    /\ aggregate_imports' = entries
    /\ \E written \in BOOLEAN :
          /\ log' = Append(log, Event("write_imports_file", IMPORTS_FILE, written))
          /\ IF written
             THEN /\ files' = Put(files, IMPORTS_FILE,
                                  write_imports_file(entries, single_zone,
                                                     zone_resource_import_id,
                                                     aggregate_zone_imports))
                  /\ Goto("finish")
             ELSE /\ UNCHANGED files
                  /\ Fail("Failed to write imports file")

\* aggregate_imports = sorted(set(aggregate_imports)); write_imports_file(...)
WriteImports ==
    /\ pc = "write_imports"
    /\ ImportsWritten(SortedSet(Range(aggregate_imports)))
    /\ UNCHANGED <<idx, outcomes, aggregate_locals, aggregate_zone_imports,
                   aggregate_zone_configs, zone_resource_import_id, successes,
                   file, file_exists, statuses>>
    /\ MainFrame

\* if successes != len(zone_ids): return 2 ... return 0
ExitStatus(exported, n) == IF exported # n THEN 2 ELSE 0

\* The outcome of a run that reached the end of main.
RunClass(exported, n) ==
    IF exported = n THEN "every zone exported"
    ELSE IF exported = 0 THEN "every zone failed"
    ELSE "some zones exported"

Finish ==
    /\ pc = "finish"
    /\ pc' = "done"
    /\ rc' = ExitStatus(successes, Len(zone_ids))
    /\ stderr' = IF successes # Len(zone_ids)
                 THEN Append(stderr, "Completed with partial success")
                 ELSE stderr
    /\ statuses' = statuses \cup { << RunClass(successes, Len(zone_ids)),
                                      ExitStatus(successes, Len(zone_ids)) >> }
    /\ UNCHANGED <<idx, log, outcomes, aggregate_locals, aggregate_imports,
                   aggregate_zone_imports, aggregate_zone_configs,
                   zone_resource_import_id, successes, files, file, file_exists>>
    /\ MainFrame

\* main is run once more, on a configuration and a directory of its own.
Rerun ==
    /\ pc = "done"
    /\ zone_ids' = <<>>
    /\ single_zone' = FALSE
    /\ export_target' = "both"
    /\ file' \in LocalsFiles
    /\ file_exists' = (file' # <<>>)
    /\ pc' = "parse_args"
    /\ rc' = 0
    /\ idx' = 0
    /\ log' = <<>>
    /\ outcomes' = <<>>
    /\ aggregate_locals' = <<>>
    /\ aggregate_imports' = <<>>
    /\ aggregate_zone_imports' = <<>>
    /\ aggregate_zone_configs' = EmptyDict
    /\ zone_resource_import_id' = None
    /\ successes' = 0
    /\ files' = EmptyDict
    /\ stderr' = <<>>
    /\ UNCHANGED <<recvars, filehistory, statuses, fnvars>>

MainNext ==
    \/ ParseArgs
    \/ GetZoneIds
    \/ CheckMode
    \/ BuildSession
    \/ ExportSingleZone
    \/ ExportZone
    \/ UpdateLocals
    \/ WriteZones
    \/ WriteImports
    \/ Finish
    \/ Rerun

SpecMain == MainInit /\ [][MainNext]_vars


----------------------------------------------------------------------------
(* The exit status, the configuration errors and the failures of a zone    *)

\* C6: among the runs that reached the end of main, a run in which some zones
\* were exported and some failed returns a status that no run in which every
\* zone was exported returns, and that no run in which every zone failed returns.
C6_PartialStatusIsItsOwn ==
    \A partial \in statuses, other \in statuses :
        partial[1] = "some zones exported" /\ other[1] # "some zones exported"
            => partial[2] # other[2]

\* The configuration errors: no zone ids, or single-zone mode with a number of
\* zone ids other than one.
ConfigurationError == zone_ids = <<>> \/ (single_zone /\ Len(zone_ids) # 1)

\* C7: on a run with a configuration error no session is created, no provider
\* call is made and no file is written at any point of the run, the run never
\* gets past the checks, and main returns a status other than zero.
C7_ConfigurationErrorsFailFast ==
    (pc \notin {"idle", "parse_args"} /\ ConfigurationError) =>
        /\ log = <<>>
        /\ files = EmptyDict
        /\ file \in LocalsFiles
        /\ file_exists = (file # <<>>)
        /\ pc \in {"get_zone_ids", "check_mode", "done"}
        /\ (pc = "done" => rc # 0)

\* C7, the case: single-zone mode with two zone ids was turned down by the check
\* of the mode.
C7_Witness ==
    /\ pc = "done"
    /\ rc = 1
    /\ single_zone
    /\ Len(zone_ids) = 2
    /\ stderr = << "--single-zone requires exactly one hosted zone ID" >>
    /\ log = <<>>

IsZoneCall(event) == event.op = "get_hosted_zone"

\* The zone ids the run asked the provider for, in the order of the calls.
ZoneCalls(events) == [i \in 1..Len(SelectSeq(events, IsZoneCall)) |->
                         SelectSeq(events, IsZoneCall)[i].arg]

\* The zone loop of a multi-zone run is over.
LoopOver ==
    /\ ~single_zone
    /\ log # <<>>
    /\ log[1].ok
    /\ ~(pc = "zone_loop" /\ idx <= Len(zone_ids))

\* The zone was attempted and no attempt of it raised.
DidNotFail(zone_id) ==
    /\ \E i \in 1..Len(outcomes) : outcomes[i][1] = zone_id
    /\ \A i \in 1..Len(outcomes) : outcomes[i][1] = zone_id => Exported(outcomes[i][2])

\* What collect_zone_records makes of the zone as the provider holds it.
ExpectedOf(zone_id, zone_details) ==
    collect_zone_records(HostedZones[zone_id].RecordSets, zone_id, zone_details.name,
                         zone_details.private_zone, <<>>, <<>>)

Expected(zone_id) ==
    ExpectedOf(zone_id, get_zone_details(HostedZones[zone_id], zone_id, FALSE, TRUE))

HasEvent(op, ok) == \E i \in 1..Len(log) : log[i].op = op /\ log[i].ok = ok

\* The record file of the zone is there, and the aggregates and the aggregate
\* files written so far hold its name and its import entries.
ZoneIsIn(expected) ==
    /\ Has(files, RecordsPath(expected.filename_domain))
    /\ files[RecordsPath(expected.filename_domain)] =
          << expected.local_var, expected.zone_key, expected.record_blocks >>
    /\ expected.local_var \in Range(aggregate_locals)
    /\ Range(expected.import_entries) \subseteq Range(aggregate_imports)
    /\ HasEvent("update_locals_file", TRUE) =>
          \E i \in 1..Len(file) :
             file[i] \in { "    local." \o Text(expected.local_var),
                           "    local." \o Text(expected.local_var) \o "," }
    /\ HasEvent("write_imports_file", TRUE) =>
          \A j \in 1..Len(expected.import_entries) :
             \E i \in 1..Len(files[IMPORTS_FILE]) :
                /\ files[IMPORTS_FILE][i].id = expected.import_entries[j][3]
                /\ files[IMPORTS_FILE][i].to =
                      << "module.zones", expected.import_entries[j][1],
                         "aws_route53_record.this", expected.import_entries[j][2] >>

C9_AggregatesStillAttempted ==
    ( /\ pc = "done"
      /\ ~single_zone
      /\ HasEvent("write_text", FALSE) \/ HasEvent("write_zones_file", FALSE)
      /\ ~HasEvent("update_locals_file", FALSE) )
    => /\ ExportRecordsEnabled(export_target) =>
             \E i \in 1..Len(log) : log[i].op = "update_locals_file"
       /\ \E i \in 1..Len(log) : log[i].op = "write_imports_file"


\* What each zone of the provider contributes when it is exported.
ExpectedFor == [z \in ZoneIdPool |-> Expected(z)]

\* The attempts of the run that raised nothing, and their zones.
ExportedAttempts == { i \in 1..Len(outcomes) : Exported(outcomes[i][2]) }
ExportedZones == { outcomes[i][1] : i \in ExportedAttempts }

\* The ids of the import blocks the exported zones account for.
ExportedIds ==
    ExportedZones
    \cup UNION { { ExpectedFor[z].import_entries[i][3] :
                     i \in 1..Len(ExpectedFor[z].import_entries) } : z \in ExportedZones }

\* C19: in every run of main `successes` counts the attempts that raised nothing,
\* and the import entries of records and of zones, the single zone's resource id
\* and the local-variable names are those of the zones of these attempts: an
\* attempt whose fetch or record-file write failed contributes none, and the
\* imports file a run writes holds no other id.
C19_ImportsFromExportedZonesOnly ==
    pc # "idle" =>
        /\ successes = Cardinality(ExportedAttempts)
        /\ Range(aggregate_imports) =
              IF ExportRecordsEnabled(export_target)
              THEN UNION { Range(ExpectedFor[z].import_entries) : z \in ExportedZones }
              ELSE {}
        /\ Range(aggregate_zone_imports) =
              IF ZoneExportEnabled(export_target, single_zone)
              THEN { << ExpectedFor[z].zone_key, z >> : z \in ExportedZones }
              ELSE {}
        /\ Range(aggregate_locals) =
              IF ExportRecordsEnabled(export_target) /\ ~single_zone
              THEN { ExpectedFor[z].local_var : z \in ExportedZones }
              ELSE {}
        /\ zone_resource_import_id # None => zone_resource_import_id \in ExportedZones
        /\ HasEvent("write_imports_file", TRUE) =>
              \A i \in 1..Len(files[IMPORTS_FILE]) :
                  files[IMPORTS_FILE][i].id \in ExportedIds

\* C19, the case: of two zones the first was exported and the record file of the
\* second could not be written, and the run wrote its imports file.
C19_Witness ==
    /\ ~single_zone
    /\ export_target = "both"
    /\ Len(outcomes) = 2
    /\ outcomes[1] = << ZONE_ID, "ok" >>
    /\ outcomes[2] = << ZONE_ID_2, "write_text" >>
    /\ aggregate_imports # <<>>
    /\ HasEvent("write_imports_file", TRUE)

---------------------------------------------------------------------------
(* The functions called on their own                                       *)
(*                                                                         *)
(* Each action is one call of one function on arguments drawn from a small *)
(* pool; fn_call keeps the arguments and what the call returned. The       *)
(* functions keep nothing from one call to the next, so each call is taken *)
(* from the state in which none was made.                                  *)

MaxListed == 2

NAME_STAR == << "\\", "0", "5", "2", ".", "e", "x", ".", "i", "o", "." >>
TYPE_NS == << "N", "S" >>
TYPE_SOA == << "S", "O", "A" >>
TYPE_TXT == << "T", "X", "T" >>
ONE_VALUE == << [Value |-> << "1" >>] >>

\* A field of a raw record: <<>> when the record does not carry it.
FnNames == { <<>>, << NAME_FOO >>, << NAME_APEX >>, << NAME_STAR >> }
FnTypes ==
    { <<>>, << <<"A">> >>, << <<"n", "s">> >>, << TYPE_NS >>, << TYPE_SOA >>,
      << TYPE_TXT >> }

\* What a record set of the provider carries besides its name and its type: a
\* plain record, an alias, and the routing policies with their set identifier.
FnShapes ==
    { [ResourceRecords |-> ONE_VALUE, TTL |-> 300],
      [AliasTarget |-> [DNSName |-> << "t", "." >>, HostedZoneId |-> << "Z", "9" >>,
                        EvaluateTargetHealth |-> FALSE]],
      [ResourceRecords |-> ONE_VALUE, TTL |-> 300, SetIdentifier |-> << "u", "s" >>,
       GeoLocation |-> [CountryCode |-> << "U", "S" >>]],
      [ResourceRecords |-> ONE_VALUE, TTL |-> 300, SetIdentifier |-> << "w" >>,
       Weight |-> 0],
      [ResourceRecords |-> ONE_VALUE, TTL |-> 300, SetIdentifier |-> << "m" >>,
       MultiValueAnswer |-> FALSE, HealthCheckId |-> << "h" >>],
      [ResourceRecords |-> ONE_VALUE, TTL |-> 300, SetIdentifier |-> << "r" >>,
       Region |-> << "e", "u" >>] }

WithField(d, k, field) == IF field = <<>> THEN d ELSE Put(d, k, field[1])

RawRecord(name, type, shape) == WithField(WithField(shape, "Name", name), "Type", type)

\* The attributes of a normalized record; of a skipped record, none.
AttributesOf(normalized) ==
    IF normalized = <<>> THEN <<>> ELSE build_record_attributes(normalized[1])

NormalizeResult(record, normalized) ==
    [fn |-> "normalize_record", record |-> record, normalized |-> normalized,
     attributes |-> AttributesOf(normalized)]

\* normalize_record(raw, zone_name, zone_id), and build_record_attributes of
\* what it returned.
NormalizeRecord ==
    /\ FunctionsIdle
    /\ \E name \in FnNames, type \in FnTypes, shape \in FnShapes :
          fn_call' = << NormalizeResult(RawRecord(name, type, shape),
                            normalize_record(RawRecord(name, type, shape),
                                             ZONE_NAME, ZONE_ID)) >>
    /\ UNCHANGED <<recvars, filevars, mainvars>>

\* The record sets a zone lists: well-formed ones, ones of the skipped types,
\* and ones that lack their name or their type.
FnListed ==
    { RawRecord(<< NAME_FOO >>, << <<"A">> >>, [ResourceRecords |-> ONE_VALUE, TTL |-> 300]),
      RawRecord(<< NAME_FOO >>, << TYPE_TXT >>, [ResourceRecords |-> ONE_VALUE, TTL |-> 300]),
      RawRecord(<< NAME_APEX >>, << <<"n", "s">> >>, [ResourceRecords |-> ONE_VALUE, TTL |-> 300]),
      RawRecord(<< NAME_FOO >>, << TYPE_SOA >>, [ResourceRecords |-> ONE_VALUE, TTL |-> 300]),
      RawRecord(<<>>, << <<"A">> >>, [ResourceRecords |-> ONE_VALUE, TTL |-> 300]),
      RawRecord(<< NAME_FOO >>, <<>>, [ResourceRecords |-> ONE_VALUE, TTL |-> 300]) }

FnListings == UNION { [1..n -> FnListed] : n \in 0..MaxListed }

\* collect_zone_records(zone_id, zone_name, private_zone, client, [], []) on a
\* zone whose record sets the paginator lists as `raw`.
CollectZoneRecords ==
    /\ FunctionsIdle
    /\ \E raw \in FnListings, private \in BOOLEAN :
          fn_call' = << [fn |-> "collect_zone_records", raw |-> raw, private |-> private,
                         result |-> collect_zone_records(raw, ZONE_ID, ZONE_NAME,
                                                         private, <<>>, <<>>)] >>
    /\ UNCHANGED <<recvars, filevars, mainvars>>

MaxEntries == 2

KEY_1 == << "k", "1" >>
KEY_2 == << "k", "2" >>

\* Import entries of records, two of them under one (zone key, record key), and
\* of zones, two of them under one zone key.
RecordEntryPool ==
    { << <<"a">>, KEY_1, << "i", "1" >> >>, << <<"a">>, KEY_1, << "i", "2" >> >>,
      << <<"a">>, KEY_2, << "i", "3" >> >>, << <<"b">>, KEY_1, << "i", "4" >> >> }
ZoneEntryPool ==
    { << <<"a">>, ZONE_ID >>, << <<"a">>, ZONE_ID_2 >>, << <<"b">>, << "Z", "3" >> >> }

EntryLists(pool) == UNION { [1..n -> pool] : n \in 0..MaxEntries }

\* write_imports_file(import_entries, path, single_zone, zone_resource_id,
\* zone_import_entries)
WriteImportsFile ==
    /\ FunctionsIdle
    /\ \E import_entries \in EntryLists(RecordEntryPool),
          zone_import_entries \in EntryLists(ZoneEntryPool),
          single \in BOOLEAN, zone_resource_id \in { None, ZONE_ID } :
          fn_call' = << [fn |-> "write_imports_file", import_entries |-> import_entries,
                         zone_import_entries |-> zone_import_entries, single |-> single,
                         zone_resource_id |-> zone_resource_id,
                         content |-> write_imports_file(import_entries, single,
                                         zone_resource_id, zone_import_entries)] >>
    /\ UNCHANGED <<recvars, filevars, mainvars>>

MaxVpcs == 2

REGION_EU == << "e", "u" >>

\* The networks of a zone: two whose ids differ in a character that
\* sanitize_identifier rewrites, one without a region, one without an id.
VpcPool ==
    { [vpc_id |-> << "v", "-", "1" >>, vpc_region |-> REGION_EU],
      [vpc_id |-> << "v", "_", "1" >>, vpc_region |-> REGION_EU],
      [vpc_id |-> << "v", "2" >>, vpc_region |-> << "u", "s" >>],
      [vpc_id |-> << "v", "2" >>, vpc_region |-> None],
      [vpc_id |-> None, vpc_region |-> REGION_EU] }

VpcLists == { seq \in UNION { [1..n -> VpcPool] : n \in 0..MaxVpcs } : IsInjective(seq) }

\* build_vpc_map(vpcs)
BuildVpcMap ==
    /\ FunctionsIdle
    /\ \E vpcs \in VpcLists :
          fn_call' = << [fn |-> "build_vpc_map", vpcs |-> vpcs,
                         vpc_map |-> build_vpc_map(vpcs)] >>
    /\ UNCHANGED <<recvars, filevars, mainvars>>

\* Zone names that differ in one character, a dot or a hyphen, and one that
\* shares neither.
ZoneNamePool ==
    { << "a", ".", "i", "o" >>, << "a", "-", "i", "o" >>, << "b", ".", "i", "o" >> }

ZonePool == { [name |-> name, private |-> private] : name \in ZoneNamePool, private \in BOOLEAN }

\* What export_records derives for a zone: zone_key, local_var and output_path.
ZoneIdentifiers(collected) ==
    [zone_key |-> collected.zone_key, local_var |-> collected.local_var,
     output_path |-> RecordsPath(collected.filename_domain)]

ExportedZone(zone) ==
    ZoneIdentifiers(collect_zone_records(<<>>, ZONE_ID, zone.name, zone.private, <<>>, <<>>))

\* export_records for one zone and then for another, as the zone loop of main
\* calls it.
ExportTwoZones ==
    /\ FunctionsIdle
    /\ \E first \in ZonePool, second \in ZonePool :
          fn_call' = << [fn |-> "export_records", zones |-> << first, second >>,
                         exported |-> << ExportedZone(first), ExportedZone(second) >>] >>
    /\ UNCHANGED <<recvars, filevars, mainvars>>

\* A value to render carries its Python type: "bool" with the value in b, "int"
\* with it in n, "str" with it in s, "none", "dict" with its keys and, in the
\* order of the keys, its items, "list" with its items. A rendered line is the sequence of the pieces of text the code puts
\* together: one "  " per level of indent, then the rest.
Quoted(text) == "\"" \o text \o "\""

to_hcl_literal(value) ==
    CASE value.t = "bool" -> IF value.b THEN "true" ELSE "false"
      [] value.t = "none" -> "null"
      [] value.t = "int" -> Text(Decimal(value.n))
      [] value.t = "str" -> Quoted(value.s)

\* IDENTIFIER_PATTERN.match(name)
IsIdentifier(name) ==
    /\ name # <<>>
    /\ IsUpper(name[1]) \/ IsLower(name[1]) \/ name[1] = "_"
    /\ \A i \in 2..Len(name) : IsAlnum(name[i]) \/ name[i] = "_"

format_name(name) ==
    IF name = <<>> THEN ""
    ELSE IF IsIdentifier(name) THEN Text(name)
    ELSE Quoted(Text(name))

Indent(indent) == [i \in 1..indent |-> "  "]

\* The line of a value that takes one line, and the first line of one that takes
\* more: after a name " = " and the text, without a name the text and, where the
\* code writes one, the comma.
Named(attribute_name, indent, text) ==
    Indent(indent) \o << format_name(attribute_name), " = ", text >>

EmptyDictLine(attribute_name, indent) ==
    IF attribute_name # <<>> THEN Named(attribute_name, indent, "{}")
    ELSE Indent(indent) \o << "{}", "," >>

EmptyListLine(attribute_name, indent) ==
    IF attribute_name # <<>> THEN Named(attribute_name, indent, "[]")
    ELSE Indent(indent) \o << "[]" >>

ScalarLine(attribute_name, indent, literal) ==
    IF attribute_name # <<>> THEN Named(attribute_name, indent, literal)
    ELSE Indent(indent) \o << literal, "," >>

Opening(attribute_name, indent, bracket) ==
    IF attribute_name # <<>> THEN Named(attribute_name, indent, bracket)
    ELSE Indent(indent) \o << bracket >>

Closing(attribute_name, indent, bracket) ==
    IF attribute_name # <<>> THEN Indent(indent) \o << bracket >>
    ELSE Indent(indent) \o << bracket, "," >>

\* The lines render_attribute_block appends to `lines`.
RECURSIVE render_attribute_block(_, _, _)
RECURSIVE RenderDictItems(_, _, _)
RECURSIVE RenderListItems(_, _)
render_attribute_block(attribute_name, attribute_value, indent) ==
    CASE attribute_value.t = "dict" ->
             IF attribute_value.items = <<>>
             THEN << EmptyDictLine(attribute_name, indent) >>
             ELSE << Opening(attribute_name, indent, "{") >>
                  \o RenderDictItems(attribute_value.keys, attribute_value.items, indent + 1)
                  \o << Closing(attribute_name, indent, "}") >>
      [] attribute_value.t = "list" ->
             IF attribute_value.items = <<>>
             THEN << EmptyListLine(attribute_name, indent) >>
             ELSE << Opening(attribute_name, indent, "[") >>
                  \o RenderListItems(attribute_value.items, indent + 1)
                  \o << Closing(attribute_name, indent, "]") >>
      [] OTHER -> << ScalarLine(attribute_name, indent, to_hcl_literal(attribute_value)) >>

RenderDictItems(keys, items, indent) ==
    IF items = <<>> THEN <<>>
    ELSE render_attribute_block(keys[1], items[1], indent)
         \o RenderDictItems(Tail(keys), Tail(items), indent)

RenderListItems(items, indent) ==
    IF items = <<>> THEN <<>>
    ELSE render_attribute_block(<<>>, items[1], indent)
         \o RenderListItems(Tail(items), indent)

MaxItems == 2

Value(type, b, n, s, keys, items) ==
    [t |-> type, b |-> b, n |-> n, s |-> s, keys |-> keys, items |-> items]
Scalar(type, b, n, s) == Value(type, b, n, s, <<>>, <<>>)
Dict(keys, items) == Value("dict", FALSE, 0, "", keys, items)
List(items) == Value("list", FALSE, 0, "", <<>>, items)

\* Scalars of each type, the empty map and the empty list.
Leaves ==
    { Scalar("bool", TRUE, 0, ""), Scalar("none", FALSE, 0, ""),
      Scalar("int", FALSE, 300, ""), Scalar("str", FALSE, 0, "a"),
      Dict(<<>>, <<>>), List(<<>>) }

\* Maps of one entry, under a key that is an identifier and one that is not, and
\* lists of one element.
Nested(values) ==
    { Dict(<< key >>, << value >>) : key \in { << "k" >>, << "a", "-", "b" >> }, value \in values }
    \cup { List(<< value >>) : value \in values }

\* What an element of a list can be: a scalar, an empty or non-empty map, an
\* empty or non-empty list, the last two with a list or a map inside.
Elements ==
    Leaves \cup Nested(Leaves)
    \cup Nested({ List(<< List(<<>>) >>), Dict(<< << "k" >> >>, << List(<<>>) >>) })

ElementLists == UNION { [1..n -> Elements] : n \in 0..MaxItems }

\* render_attribute_block(name, [elements], indent, lines) on lines = []
RenderAttributeBlock ==
    /\ FunctionsIdle
    /\ \E elements \in ElementLists :
          fn_call' = << [fn |-> "render_attribute_block", elements |-> elements,
                         lines |-> render_attribute_block(<< "x" >>, List(elements), 0)] >>
    /\ UNCHANGED <<recvars, filevars, mainvars>>

FnInit ==
    /\ RecordsIdle
    /\ FilesIdle
    /\ MainIdle
    /\ FunctionsIdle

FnNext ==
    \/ NormalizeRecord
    \/ CollectZoneRecords
    \/ WriteImportsFile
    \/ BuildVpcMap
    \/ ExportTwoZones
    \/ RenderAttributeBlock

SpecFunctions == FnInit /\ [][FnNext]_vars

\* The last call, when it was a call of fn.
Called_fn(fn) == fn_call # <<>> /\ fn_call[1].fn = fn

---------------------------------------------------------------------------
(* C11                                                                     *)

\* The raw record's type, uppercased, is NS or SOA.
OfSkippedType(record) == Upper(GetOrEmpty(record, "Type")) \in { TYPE_NS, TYPE_SOA }

\* The value of an attribute of a block, <<>> when the block lacks it.
AttributeIn(block, name) ==
    IF \E i \in 1..Len(block) : block[i][1] = name
    THEN << block[CHOOSE i \in 1..Len(block) : block[i][1] = name][2] >>
    ELSE <<>>

\* What a zone's collection made from records of the types NS and SOA: nothing.
NothingOfSkippedType(raw, result) ==
    /\ Len(result.keyed) = Cardinality({ i \in 1..Len(raw) : ~OfSkippedType(raw[i]) })
    /\ Len(result.import_entries) = Len(result.keyed)
    /\ \A i \in 1..Len(result.keyed) : result.keyed[i].type \notin { TYPE_NS, TYPE_SOA }
    /\ \A i \in 1..Len(result.record_blocks) :
          AttributeIn(result.record_blocks[i][2], "type") \notin
              { << TYPE_NS >>, << TYPE_SOA >> }

\* C11: a raw record whose uppercased type is in the skip set (NS, SOA) gets no
\* output from normalize_record, whatever its name, and a zone's collection holds
\* a key, an attribute block and an import entry for the other records only.
C11_SkippedTypesProduceNothing ==
    /\ Called_fn("normalize_record") /\ OfSkippedType(fn_call[1].record)
           => fn_call[1].normalized = <<>>
    /\ Called_fn("collect_zone_records")
           => NothingOfSkippedType(fn_call[1].raw, fn_call[1].result)

\* A zone that lists a record of a skipped type beside one of another type was
\* collected.
C11_Witness ==
    /\ Called_fn("collect_zone_records")
    /\ \E i \in 1..Len(fn_call[1].raw) : OfSkippedType(fn_call[1].raw[i])
    /\ fn_call[1].result.keyed # <<>>


---------------------------------------------------------------------------
(* C12                                                                     *)

\* The lists that hold the items of a list in another order, or in the same.
Reorderings(items) ==
    { [i \in 1..Len(items) |-> items[p[i]]] :
        p \in { q \in [1..Len(items) -> 1..Len(items)] : IsInjective(q) } }

\* The file written is the same for every order of the two lists.
SameForEveryOrder(c) ==
    \A records \in Reorderings(c.import_entries),
       zones \in Reorderings(c.zone_import_entries) :
        write_imports_file(records, c.single, c.zone_resource_id, zones) = c.content

IsZoneImport(block) == block.to[Len(block.to)] = "0"

\* The blocks of zones come first and ascend by zone key; the blocks of records
\* follow and, where the address names the zone, ascend by (zone key, record key).
InFixedOrder(content, single) ==
    /\ \A i, j \in 1..Len(content) :
          IsZoneImport(content[j]) /\ ~IsZoneImport(content[i]) => j < i
    /\ \A i \in 1..(Len(content) - 1) :
          /\ IsZoneImport(content[i + 1]) /\ Len(content[i].to) = 4
                 => ~StrLess(content[i + 1].to[2], content[i].to[2])
          /\ ~IsZoneImport(content[i]) /\ ~single
                 => ~TupleLess(<< content[i + 1].to[2], content[i + 1].to[4] >>,
                               << content[i].to[2], content[i].to[4] >>)

\* No two zone entries share a zone key, no two record entries a (zone key,
\* record key).
DistinctSortKeys(c) ==
    /\ IsInjective([i \in 1..Len(c.zone_import_entries) |-> c.zone_import_entries[i][1]])
    /\ IsInjective([i \in 1..Len(c.import_entries) |->
                       SubSeq(c.import_entries[i], 1, 2)])

NoEntries(c) ==
    c.import_entries = <<>> /\ c.zone_import_entries = <<>> /\ ~Truthy(c.zone_resource_id)

\* C12, as claimed: the file write_imports_file writes is the same for every
\* order of its input lists, zone blocks before record blocks, each group sorted;
\* with no entries it is empty.
C12_FixedOrderForEveryInput ==
    Called_fn("write_imports_file")
        => /\ SameForEveryOrder(fn_call[1])
           /\ InFixedOrder(fn_call[1].content, fn_call[1].single)
           /\ NoEntries(fn_call[1]) => fn_call[1].content = <<>>

\* C12, amended: the same, for lists in which no two zone entries share a zone
\* key and no two record entries share a (zone key, record key); the order of the
\* groups and the order within each group hold for every input.
C12_FixedOrderForDistinctKeys ==
    Called_fn("write_imports_file")
        => /\ DistinctSortKeys(fn_call[1]) => SameForEveryOrder(fn_call[1])
           /\ InFixedOrder(fn_call[1].content, fn_call[1].single)
           /\ NoEntries(fn_call[1]) <=> fn_call[1].content = <<>>

\* A file was written from two zone entries and two record entries of distinct
\* sort keys, each list passed in descending order.
C12_Witness ==
    /\ Called_fn("write_imports_file")
    /\ DistinctSortKeys(fn_call[1])
    /\ ~fn_call[1].single
    /\ Len(fn_call[1].zone_import_entries) = 2
    /\ Len(fn_call[1].import_entries) = 2
    /\ StrLess(fn_call[1].zone_import_entries[2][1], fn_call[1].zone_import_entries[1][1])
    /\ TupleLess(fn_call[1].import_entries[2], fn_call[1].import_entries[1])


---------------------------------------------------------------------------
(* C13                                                                     *)

\* The attributes whose value is a string, a nested map, a list of strings; the
\* others hold a number or a boolean, which is never null.
STRING_ATTRIBUTES ==
    { "full_name", "type", "set_identifier", "health_check_id", "failover",
      "traffic_policy_instance_id", "name", "zone_id", "region", "continent",
      "country", "subdivision" }
MAP_ATTRIBUTES ==
    { "alias", "latency_routing_policy", "weighted_routing_policy",
      "geolocation_routing_policy" }
LIST_ATTRIBUTES == { "records" }

\* The items of a map hold no null, one level down.
NoNullItem(items) ==
    \A i \in 1..Len(items) : items[i][1] \in STRING_ATTRIBUTES => items[i][2] # None

NoNullIn(attributes) ==
    /\ NoNullItem(attributes)
    /\ \A i \in 1..Len(attributes) :
          /\ attributes[i][1] \in MAP_ATTRIBUTES => NoNullItem(attributes[i][2])
          /\ attributes[i][1] \in LIST_ATTRIBUTES
                 => \A j \in 1..Len(attributes[i][2]) : attributes[i][2][j] # None

\* C13: the attributes build_record_attributes makes of a normalized record hold
\* no null attribute, nested attribute or list element, and no empty
\* geolocation_routing_policy.
C13_NoNullAttribute ==
    Called_fn("normalize_record") /\ fn_call[1].normalized # <<>>
        => /\ NoNullIn(fn_call[1].attributes)
           /\ AttributeIn(fn_call[1].attributes, "geolocation_routing_policy") # << <<>> >>

\* A record with a location of which the provider gave the country only was
\* normalized: its continent and subdivision are None in the normalized record.
C13_Witness ==
    /\ Called_fn("normalize_record")
    /\ fn_call[1].normalized # <<>>
    /\ Has(fn_call[1].normalized[1], "geo_location")
    /\ fn_call[1].normalized[1].geo_location.continent_code = None
    /\ AttributeIn(fn_call[1].attributes, "geolocation_routing_policy") # <<>>


---------------------------------------------------------------------------
(* C14                                                                     *)

\* The key the claim gives the n-th network in ascending (region, id) order: the
\* sanitized identifier, or vpc_NN when an earlier network has that identifier.
ClaimedVpcKey(sorted_vpcs, n) ==
    IF \E m \in 1..(n - 1) :
           VpcIdentifier(sorted_vpcs[m], m) = VpcIdentifier(sorted_vpcs[n], n)
    THEN VPC_PREFIX \o Pad02(n)
    ELSE VpcIdentifier(sorted_vpcs[n], n)

EntryPerVpc(sorted_vpcs, vpc_map) ==
    /\ Len(vpc_map) = Len(sorted_vpcs)
    /\ \A n \in 1..Len(sorted_vpcs) :
          vpc_map[n] = << ClaimedVpcKey(sorted_vpcs, n), VpcBlock(sorted_vpcs[n]) >>

\* C14: build_vpc_map keeps one entry per network, in ascending (region, id)
\* order, under the sanitized identifier, and a network whose identifier an
\* earlier one has is stored under vpc_NN instead of replacing it.
C14_OneEntryPerVpc ==
    Called_fn("build_vpc_map")
        => EntryPerVpc(SortedVpcs(fn_call[1].vpcs), fn_call[1].vpc_map)


---------------------------------------------------------------------------
(* C15                                                                     *)

\* C15: two zones that differ in name or in privacy get different zone keys,
\* different local-variable names and different record files.
C15_ZoneIdentifiersDistinct ==
    Called_fn("export_records") /\ fn_call[1].zones[1] # fn_call[1].zones[2]
        => /\ fn_call[1].exported[1].zone_key # fn_call[1].exported[2].zone_key
           /\ fn_call[1].exported[1].local_var # fn_call[1].exported[2].local_var
           /\ fn_call[1].exported[1].output_path # fn_call[1].exported[2].output_path


---------------------------------------------------------------------------
(* C16                                                                     *)

\* The import id the claim gives a record of the zone ZONE_NAME, ZONE_ID.
ClaimedImportId(record, full_name) ==
    ZONE_ID \o <<"_">> \o (IF full_name = <<>> THEN ZONE_NAME ELSE full_name)
    \o <<"_">> \o Upper(GetOrEmpty(record, "Type"))
    \o (IF Has(record, "SetIdentifier") THEN <<"_">> \o record.SetIdentifier ELSE <<>>)

\* C16: the import id of a normalized record is zone id, full name (the zone
\* name when the record name is empty), uppercased type and, only when the raw
\* record carries one, the set identifier, joined by "_"; normalizing the raw
\* record again gives the same id.
C16_ImportIdJoin ==
    Called_fn("normalize_record") /\ fn_call[1].normalized # <<>>
        => /\ fn_call[1].normalized[1].import_id
                  = ClaimedImportId(fn_call[1].record, fn_call[1].normalized[1].full_name)
           /\ normalize_record(fn_call[1].record, ZONE_NAME, ZONE_ID)[1].import_id
                  = fn_call[1].normalized[1].import_id

\* A record of type A without a set identifier, at the apex or without a name,
\* was normalized.
C16_Witness ==
    /\ Called_fn("normalize_record")
    /\ fn_call[1].normalized # <<>>
    /\ fn_call[1].normalized[1].full_name \in { ZONE_NAME, <<>> }
    /\ ~Has(fn_call[1].record, "SetIdentifier")
    /\ fn_call[1].normalized[1].import_id = ZONE_ID \o <<"_">> \o ZONE_NAME \o << "_", "A" >>


---------------------------------------------------------------------------
(* C17                                                                     *)

\* The level of indent of a line: the number of "  " it starts with.
RECURSIVE IndentOf(_)
IndentOf(line) ==
    IF line # <<>> /\ line[1] = "  " THEN 1 + IndentOf(Tail(line)) ELSE 0

\* The line ends an element rendered directly under the list of the call: it is
\* one level in and does not open a map or a list.
EndsElement(line) == IndentOf(line) = 1 /\ line[Len(line)] \notin { "{", "[" }

\* C17: every element rendered directly under a non-empty list (a scalar, a map
\* or a list, empty or not) ends with a trailing comma.
C17_ListElementsEndWithComma ==
    Called_fn("render_attribute_block")
        => \A i \in 1..Len(fn_call[1].lines) :
               EndsElement(fn_call[1].lines[i])
                   => fn_call[1].lines[i][Len(fn_call[1].lines[i])] = ","


---------------------------------------------------------------------------
(* C18                                                                     *)

\* The raw record lacks its name or its type.
Malformed(record) == ~Has(record, "Name") \/ ~Has(record, "Type")

\* The records of a listing a zone's collection is to emit: those that are
\* neither malformed nor of a skipped type.
Emitted(raw) == { i \in 1..Len(raw) : ~Malformed(raw[i]) /\ ~OfSkippedType(raw[i]) }

\* C18: a raw record that lacks its name or its type is skipped, leaving no key,
\* no attribute block and no import entry, and the other records of the zone are
\* emitted all the same.
C18_MalformedRecordsSkipped ==
    Called_fn("collect_zone_records")
        => /\ Len(fn_call[1].result.keyed) = Cardinality(Emitted(fn_call[1].raw))
           /\ Len(fn_call[1].result.import_entries) = Cardinality(Emitted(fn_call[1].raw))
           /\ Len(fn_call[1].result.record_blocks) <= Cardinality(Emitted(fn_call[1].raw))

====
